---- MODULE Spec2Model ----
\* IMAP METADATA extension (GETMETADATA / SETMETADATA) of the mail server:
\* a model of the two command handlers of imapserver/metadata.go.
\*
\* Strings are sequences of one-character strings, so that prefix tests and
\* splitting on "/" are computed character by character as the Go code does.
\* A []byte value is a record [isNil, b]: Go distinguishes a nil slice from an
\* empty one, both of length 0.
EXTENDS Integers, Sequences, FiniteSets, TLC

VARIABLES
    db,         \* the account's Annotation table, rows in primary-key order
    dbBefore,   \* the table as it was when the last command started
    req,        \* the last command read from the connection
    resp,       \* the response written for the last command
    broadcast,  \* the changes the last command handed to c.broadcast
    Conf,       \* Conf.Dynamic: the live configuration, maps Domains and Accounts
    called,     \* the last call of DomainAdd: arguments, error, Conf.Dynamic before
    lock,       \* the account's read/write lock: the writer and the readers
    conns,      \* the position of each concurrent connection in its command
    committed,  \* the table as of the last commit of a write transaction
    mr,         \* the MboxReader: its file, the unread lines, its fields
    mdr,        \* the MaildirReader: its directories and unread entries
    out         \* the result of the last call of Next of a reader

vars == <<db, dbBefore, req, resp, broadcast, Conf, called, lock, conns, committed, mr, mdr, out>>

\* The variables of connections running concurrently on the account.
sessionVars == <<lock, conns, committed>>

\* The variables of the configuration.
confVars == <<Conf, called>>
\* The variables of the IMAP connection and its account.
imapVars == <<db, dbBefore, req, resp, broadcast>>
\* The variables of the readers of the import.
importVars == <<mr, mdr, out>>

----------------------------------------------------------------------------
\* Bounds of the model.

\* Longest pair list of one SETMETADATA command.
MaxPairs == 2
\* Longest option list of one GETMETADATA command.
MaxOpts == 2
\* Longest entry list of one GETMETADATA command.
MaxEntries == 2
\* Most path segments after the namespace in a generated entry name.
MaxSegments == 3

\* var metadataMaxKeys = 1000 and var metadataMaxSize = 1000 * 1000, "changed
\* during tests": scaled down so that both limits are reached.
metadataMaxKeys == 3
metadataMaxSize == 50

\* Most lines of a generated mbox file or maildir message file.
MaxLines == 4

----------------------------------------------------------------------------
\* Strings.

HasPrefix(s, prefix) ==
    /\ Len(s) >= Len(prefix)
    /\ SubSeq(s, 1, Len(prefix)) = prefix

\* Position of the first sep in s, 0 when there is none.
Index(s, sep) ==
    IF \E i \in 1..Len(s) : s[i] = sep
    THEN CHOOSE i \in 1..Len(s) : s[i] = sep /\ \A j \in 1..(i-1) : s[j] # sep
    ELSE 0

\* strings.SplitN(s, sep, n) for n > 0: at most n substrings, the last one the
\* unsplit remainder.
RECURSIVE SplitN(_, _, _)
SplitN(s, sep, n) ==
    LET i == Index(s, sep)
    IN  IF n = 1 \/ i = 0
        THEN <<s>>
        ELSE <<SubSeq(s, 1, i - 1)>> \o SplitN(SubSeq(s, i + 1, Len(s)), sep, n - 1)

Slash == "/"
strPrivate == <<"/", "p", "r", "i", "v", "a", "t", "e", "/">>
strPrivateVendor == <<"/", "p", "r", "i", "v", "a", "t", "e", "/", "v", "e", "n", "d", "o", "r">>
strPrivateVendorSlash == strPrivateVendor \o <<"/">>

----------------------------------------------------------------------------
\* Values and annotations.

NilValue == [isNil |-> TRUE, b |-> <<>>]
Bytes(b) == [isNil |-> FALSE, b |-> b]
len(v) == Len(v.b)
bytesEqual(v, w) == v.b = w.b

\* store.Annotation, without the ID: the position in db stands for it.
Annotation(mailboxID, key, isString, value) ==
    [MailboxID |-> mailboxID, Key |-> key, IsString |-> isString, Value |-> value]

\* Annotation.Change(mailboxName): the change record of annotation a.
Change(a, mailboxName) == [MailboxName |-> mailboxName, A |-> a]

\* The mailboxes of the account: the empty name is the global scope, ID 0.
strInbox == <<"I", "n", "b", "o", "x">>
MailboxNames == {<<>>, strInbox}
xmailbox(mailboxName) == IF mailboxName = strInbox THEN 1 ELSE 0

----------------------------------------------------------------------------
\* Responses.

\* The tagged status line and the untagged lines written before it.
Response(status, code, n, untagged) ==
    [status |-> status, code |-> code, n |-> n, untagged |-> untagged]

NoResponse == Response("", "", -1, <<>>)
\* c.ok(tag, cmd)
ok == Response("OK", "", -1, <<>>)
\* p.xerrorf: a syntax error of the command.
xerrorf == Response("syntax error", "", -1, <<>>)
\* xuserErrorf: a user error without a response code.
xuserErrorf == Response("user error", "", -1, <<>>)
\* xusercodeErrorf(code, ...): a user error with a response code.
xusercodeErrorf(code, n) == Response("user error", code, n, <<>>)
\* xcheckf(err, ...) with a non-nil err: a server error.
xcheckf == Response("server error", "", -1, <<>>)

----------------------------------------------------------------------------
\* SETMETADATA.

\* checkEntryName asking for 3 components instead of 4.
checkEntryNameThreeComponents(key) ==
    IF ~HasPrefix(key, strPrivate)
    THEN "only /private/* entry names allowed"
    ELSE IF /\ key = strPrivateVendor \/ HasPrefix(key, strPrivateVendorSlash)
            /\ Len(SplitN(Tail(key), Slash, 4)) < 3
         THEN "entry names starting with /private/vendor must have at least 4 components"
         ELSE ""

\* checkEntryName without the check of the namespace.
checkEntryNameAnyNamespace(key) ==
    IF /\ key = strPrivateVendor \/ HasPrefix(key, strPrivateVendorSlash)
       /\ Len(SplitN(Tail(key), Slash, 4)) < 4
    THEN "entry names starting with /private/vendor must have at least 4 components"
    ELSE ""

\* The additional checks on one entry name: "" when it passes.
checkEntryName(key) ==
    IF ~HasPrefix(key, strPrivate)
    THEN "only /private/* entry names allowed"
    ELSE IF /\ key = strPrivateVendor \/ HasPrefix(key, strPrivateVendorSlash)
            /\ Len(SplitN(Tail(key), Slash, 4)) < 4
         THEN "entry names starting with /private/vendor must have at least 4 components"
         ELSE ""

\* checkEntryNames looking at the first pair only.
checkEntryNamesFirstOnly(l) ==
    IF l = <<>> THEN "" ELSE checkEntryName(Head(l).Key)

\* The loop over the parsed pairs: the first failing check ends the command.
RECURSIVE checkEntryNames(_)
checkEntryNames(l) ==
    IF l = <<>>
    THEN ""
    ELSE IF checkEntryName(Head(l).Key) # ""
         THEN checkEntryName(Head(l).Key)
         ELSE checkEntryNames(Tail(l))

\* The rows selected by q: FilterNonzero on Key and FilterEqual on MailboxID.
Selected(tx, key, mailboxID) ==
    SelectSeq(tx, LAMBDA oa : oa.Key = key /\ oa.MailboxID = mailboxID)

NotSelected(tx, key, mailboxID) ==
    SelectSeq(tx, LAMBDA oa : ~(oa.Key = key /\ oa.MailboxID = mailboxID))

\* The position in tx of the row q.Get returns.
GetIndex(tx, key, mailboxID) ==
    CHOOSE i \in 1..Len(tx) : tx[i].Key = key /\ tx[i].MailboxID = mailboxID

\* setAnnotation with the removal of a key that has no row treated as an error.
setAnnotationRemoveAbsentFails(st, a, mbID, mailboxName) ==
    LET sel == Selected(st.tx, a.Key, mbID)
        na  == [a EXCEPT !.MailboxID = mbID]
    IN  IF a.Value.isNil
        THEN IF Len(sel) = 0
             THEN [st EXCEPT !.err = xcheckf]
             ELSE [st EXCEPT
                    !.tx = NotSelected(st.tx, a.Key, mbID),
                    !.changes = st.changes \o [i \in 1..Len(sel) |-> Change(sel[i], mailboxName)]]
        ELSE IF Len(sel) = 0
        THEN [st EXCEPT
                !.tx = Append(st.tx, na),
                !.changes = Append(st.changes, Change(na, mailboxName))]
        ELSE LET i  == GetIndex(st.tx, a.Key, mbID)
                 oa == st.tx[i]
             IN  [st EXCEPT
                    !.tx = [st.tx EXCEPT ![i].Value = na.Value],
                    !.changes =
                        IF \/ oa.IsString # na.IsString
                           \/ oa.Value.isNil # na.Value.isNil
                           \/ ~bytesEqual(oa.Value, na.Value)
                        THEN Append(st.changes, Change(na, mailboxName))
                        ELSE st.changes]

\* setAnnotation that inserts a row for every pair with a value, without the
\* lookup of an existing row.
setAnnotationInsertOnly(st, a, mbID, mailboxName) ==
    LET sel == Selected(st.tx, a.Key, mbID)
        na  == [a EXCEPT !.MailboxID = mbID]
    IN  IF a.Value.isNil
        THEN [st EXCEPT
                !.tx = NotSelected(st.tx, a.Key, mbID),
                !.changes = st.changes \o [i \in 1..Len(sel) |-> Change(sel[i], mailboxName)]]
        ELSE [st EXCEPT
                !.tx = Append(st.tx, na),
                !.changes = Append(st.changes, Change(na, mailboxName))]

\* setAnnotation without the removal: a nil value is stored like any other.
setAnnotationStoresNil(st, a, mbID, mailboxName) ==
    LET sel == Selected(st.tx, a.Key, mbID)
        na  == [a EXCEPT !.MailboxID = mbID]
    IN  IF Len(sel) = 0
        THEN [st EXCEPT
                !.tx = Append(st.tx, na),
                !.changes = Append(st.changes, Change(na, mailboxName))]
        ELSE LET i  == GetIndex(st.tx, a.Key, mbID)
             IN  [st EXCEPT
                    !.tx = [st.tx EXCEPT ![i].Value = na.Value],
                    !.changes = Append(st.changes, Change(na, mailboxName))]

\* One round of the loop over l: pair a applied to the transaction state
\* st = [tx, changes, err], for the mailbox with ID mbID.
setAnnotation(st, a, mbID, mailboxName) ==
    LET sel == Selected(st.tx, a.Key, mbID)
        na  == [a EXCEPT !.MailboxID = mbID]
    IN  IF a.Value.isNil
        THEN \* Nil means remove.
             [st EXCEPT
                !.tx = NotSelected(st.tx, a.Key, mbID),
                !.changes = st.changes \o [i \in 1..Len(sel) |-> Change(sel[i], mailboxName)]]
        ELSE IF Len(sel) = 0
        THEN \* bstore.ErrAbsent: insert.
             [st EXCEPT
                !.tx = Append(st.tx, na),
                !.changes = Append(st.changes, Change(na, mailboxName))]
        ELSE IF Len(sel) > 1
        THEN \* bstore.ErrMultiple
             [st EXCEPT !.err = xcheckf]
        ELSE LET i  == GetIndex(st.tx, a.Key, mbID)
                 oa == st.tx[i]
             IN  [st EXCEPT
                    !.tx = [st.tx EXCEPT ![i].Value = na.Value],
                    !.changes =
                        IF \/ oa.IsString # na.IsString
                           \/ oa.Value.isNil # na.Value.isNil
                           \/ ~bytesEqual(oa.Value, na.Value)
                        THEN Append(st.changes, Change(na, mailboxName))
                        ELSE st.changes]

\* The loop over l with the pairs applied from the last to the first.
RECURSIVE setAnnotationsLastFirst(_, _, _, _)
setAnnotationsLastFirst(st, l, mbID, mailboxName) ==
    IF l = <<>>
    THEN st
    ELSE LET rest == setAnnotationsLastFirst(st, Tail(l), mbID, mailboxName)
         IN  IF rest.err # NoResponse
             THEN rest
             ELSE setAnnotation(rest, Head(l), mbID, mailboxName)

\* for _, a := range l: an error ends the loop.
RECURSIVE setAnnotations(_, _, _, _)
setAnnotations(st, l, mbID, mailboxName) ==
    IF l = <<>> \/ st.err # NoResponse
    THEN st
    ELSE setAnnotations(setAnnotation(st, Head(l), mbID, mailboxName), Tail(l), mbID, mailboxName)

\* checkQuota with the size of the values left out of the total.
RECURSIVE checkQuotaKeysOnly(_, _, _, _)
checkQuotaKeysOnly(tx, i, n, size) ==
    IF i > Len(tx)
    THEN NoResponse
    ELSE IF n + 1 > metadataMaxKeys
         THEN xusercodeErrorf("METADATA TOOMANY", -1)
         ELSE IF size + Len(tx[i].Key) > metadataMaxSize
              THEN xusercodeErrorf("METADATA MAXSIZE", metadataMaxSize)
              ELSE checkQuotaKeysOnly(tx, i + 1, n + 1, size + Len(tx[i].Key))

\* checkQuota with the size tested before the count for each row.
RECURSIVE checkQuotaSizeFirst(_, _, _, _)
checkQuotaSizeFirst(tx, i, n, size) ==
    IF i > Len(tx)
    THEN NoResponse
    ELSE IF size + Len(tx[i].Key) + len(tx[i].Value) > metadataMaxSize
         THEN xusercodeErrorf("METADATA MAXSIZE", metadataMaxSize)
         ELSE IF n + 1 > metadataMaxKeys
              THEN xusercodeErrorf("METADATA TOOMANY", -1)
              ELSE checkQuotaSizeFirst(tx, i + 1, n + 1, size + Len(tx[i].Key) + len(tx[i].Value))

\* The check for total count and size over all annotations of the account, from
\* row i on with n rows and size bytes counted so far: NoResponse when within
\* the limits.
RECURSIVE checkQuota(_, _, _, _)
checkQuota(tx, i, n, size) ==
    IF i > Len(tx)
    THEN NoResponse
    ELSE IF n + 1 > metadataMaxKeys
         THEN xusercodeErrorf("METADATA TOOMANY", -1)
         ELSE IF size + Len(tx[i].Key) + len(tx[i].Value) > metadataMaxSize
              THEN xusercodeErrorf("METADATA MAXSIZE", metadataMaxSize)
              ELSE checkQuota(tx, i + 1, n + 1, size + Len(tx[i].Key) + len(tx[i].Value))

\* c.xdbwrite(fn): the write transaction commits the staged table when fn
\* returns, and rolls back to table d when fn panics with an error.
xdbwrite(d, st) == IF st.err = NoResponse THEN st.tx ELSE d

\* storeAnnotations with the quota check made after the transaction has
\* committed instead of inside it.
storeAnnotationsCheckAfterCommit(d, mailboxName, l) ==
    LET mbID   == xmailbox(mailboxName)
        st     == setAnnotations([tx |-> d, changes |-> <<>>, err |-> NoResponse], l, mbID, mailboxName)
        quota  == IF st.err # NoResponse THEN st.err ELSE checkQuota(st.tx, 1, 0, 0)
    IN  [db |-> xdbwrite(d, st),
         broadcast |-> IF quota = NoResponse THEN st.changes ELSE <<>>,
         err |-> quota]

\* storeAnnotations with the changes broadcast whether or not the transaction
\* committed.
storeAnnotationsBroadcastAlways(d, mailboxName, l) ==
    LET mbID   == xmailbox(mailboxName)
        st     == setAnnotations([tx |-> d, changes |-> <<>>, err |-> NoResponse], l, mbID, mailboxName)
        quota  == IF st.err # NoResponse THEN st.err ELSE checkQuota(st.tx, 1, 0, 0)
        done   == [st EXCEPT !.err = quota]
    IN  [db |-> xdbwrite(d, done),
         broadcast |-> done.changes,
         err |-> done.err]

\* storeAnnotations with the quota counted over the rows of the mailbox of the
\* command only.
storeAnnotationsQuotaOfMailbox(d, mailboxName, l) ==
    LET mbID   == xmailbox(mailboxName)
        st     == setAnnotations([tx |-> d, changes |-> <<>>, err |-> NoResponse], l, mbID, mailboxName)
        own    == SelectSeq(st.tx, LAMBDA a : a.MailboxID = mbID)
        quota  == IF st.err # NoResponse THEN st.err ELSE checkQuota(own, 1, 0, 0)
        done   == [st EXCEPT !.err = quota]
    IN  [db |-> xdbwrite(d, done),
         broadcast |-> IF done.err = NoResponse THEN done.changes ELSE <<>>,
         err |-> done.err]

\* The loop over l with the quota checked after each pair.
RECURSIVE setAnnotationsQuotaEachPair(_, _, _, _)
setAnnotationsQuotaEachPair(st, l, mbID, mailboxName) ==
    IF l = <<>> \/ st.err # NoResponse
    THEN st
    ELSE LET t == setAnnotation(st, Head(l), mbID, mailboxName)
             u == IF t.err # NoResponse THEN t ELSE [t EXCEPT !.err = checkQuota(t.tx, 1, 0, 0)]
         IN  setAnnotationsQuotaEachPair(u, Tail(l), mbID, mailboxName)

\* storeAnnotations with the quota checked on every intermediate table.
storeAnnotationsQuotaEachPair(d, mailboxName, l) ==
    LET mbID   == xmailbox(mailboxName)
        st     == setAnnotationsQuotaEachPair([tx |-> d, changes |-> <<>>, err |-> NoResponse], l, mbID, mailboxName)
        quota  == IF st.err # NoResponse THEN st.err ELSE checkQuota(st.tx, 1, 0, 0)
        done   == [st EXCEPT !.err = quota]
    IN  [db |-> xdbwrite(d, done),
         broadcast |-> IF done.err = NoResponse THEN done.changes ELSE <<>>,
         err |-> done.err]

\* c.account.WithWLock(...): the transaction on table d, then the broadcast.
\* Gives the table, the changes handed to c.broadcast and the error.
storeAnnotations(d, mailboxName, l) ==
    LET mbID   == xmailbox(mailboxName)
        st     == setAnnotations([tx |-> d, changes |-> <<>>, err |-> NoResponse], l, mbID, mailboxName)
        quota  == IF st.err # NoResponse THEN st.err ELSE checkQuota(st.tx, 1, 0, 0)
        done   == [st EXCEPT !.err = quota]
    IN  [db |-> xdbwrite(d, done),
         broadcast |-> IF done.err = NoResponse THEN done.changes ELSE <<>>,
         err |-> done.err]

Request(cmd, opts, mailboxName, entries, l) ==
    [cmd |-> cmd, opts |-> opts, mailboxName |-> mailboxName, entries |-> entries, l |-> l]

NoRequest == Request("", <<>>, <<>>, <<>>, <<>>)

\* The handler has returned: the connection reads its next command.
nextCommand ==
    /\ req # NoRequest
    /\ req' = NoRequest
    /\ resp' = NoResponse
    /\ broadcast' = <<>>
    /\ dbBefore' = db
    /\ db' = db
    /\ UNCHANGED confVars
    /\ UNCHANGED importVars
    /\ UNCHANGED sessionVars

\* The handler of SETMETADATA mailboxName (l).
cmdSetmetadata(mailboxName, l) ==
    LET r == storeAnnotations(db, mailboxName, l)
    IN  /\ UNCHANGED confVars
        /\ UNCHANGED importVars
        /\ UNCHANGED sessionVars
        /\ req' = Request("SETMETADATA", <<>>, mailboxName, <<>>, l)
        /\ dbBefore' = db
        /\ IF checkEntryNames(l) # ""
           THEN /\ resp' = xuserErrorf
                /\ db' = db
                /\ broadcast' = <<>>
           ELSE /\ db' = r.db
                /\ broadcast' = r.broadcast
                /\ resp' = IF r.err = NoResponse THEN ok ELSE r.err

----------------------------------------------------------------------------
\* GETMETADATA.

\* One option of the parenthesized option list: MAXSIZE n, DEPTH s, or a word
\* that is neither.
Option(name, n, s) == [name |-> name, n |-> n, s |-> s]

\* parseOption taking MAXSIZE 0 and DEPTH 0 for options not given yet.
parseOptionZeroNotGiven(o, opt) ==
    IF opt.name = "MAXSIZE"
    THEN IF o.optMaxSize > 0
         THEN [o EXCEPT !.err = xerrorf]
         ELSE [o EXCEPT !.optMaxSize = opt.n]
    ELSE IF opt.name = "DEPTH"
    THEN IF o.optDepth \notin {"", "0"}
         THEN [o EXCEPT !.err = xerrorf]
         ELSE [o EXCEPT !.optDepth = opt.s]
    ELSE [o EXCEPT !.err = xerrorf]

\* One round of the option loop on the parse state o = [optMaxSize, optDepth, err].
parseOption(o, opt) ==
    IF opt.name = "MAXSIZE"
    THEN IF o.optMaxSize >= 0
         THEN [o EXCEPT !.err = xerrorf]
         ELSE [o EXCEPT !.optMaxSize = opt.n]
    ELSE IF opt.name = "DEPTH"
    THEN IF o.optDepth # ""
         THEN [o EXCEPT !.err = xerrorf]
         ELSE [o EXCEPT !.optDepth = opt.s]
    ELSE [o EXCEPT !.err = xerrorf]

\* The option loop: a syntax error ends the command.
RECURSIVE parseOptions(_, _)
parseOptions(o, opts) ==
    IF opts = <<>> \/ o.err # NoResponse
    THEN o
    ELSE parseOptions(parseOption(o, Head(opts)), Tail(opts))

\* entryNames: the set of the entry names of the command.
entryNamesOf(entries) == {entries[i] : i \in 1..Len(entries)}

\* matchDepth with depth "0" handled by the case of depth "1".
matchDepthZeroAsOne(key, entryNames, optDepth) ==
    IF optDepth = ""
    THEN key \in entryNames
    ELSE \/ key \in entryNames
         \/ \E s \in entryNames :
               LET prefix == IF s # <<Slash>> THEN s \o <<Slash>> ELSE s
               IN  /\ HasPrefix(key, prefix)
                   /\ \/ optDepth = "INFINITY"
                      \/ Len(SplitN(SubSeq(key, Len(prefix) + 1, Len(key)), Slash, 2)) = 1

\* matchDepth without the test of the suffix for depth 1.
matchDepthNoSuffixTest(key, entryNames, optDepth) ==
    IF optDepth \in {"", "0"}
    THEN key \in entryNames
    ELSE \/ key \in entryNames
         \/ \E s \in entryNames :
               LET prefix == IF s # <<Slash>> THEN s \o <<Slash>> ELSE s
               IN  HasPrefix(key, prefix)

\* matchDepth with the entry name itself as the prefix, without the "/".
matchDepthNoSlash(key, entryNames, optDepth) ==
    IF optDepth \in {"", "0"}
    THEN key \in entryNames
    ELSE \/ key \in entryNames
         \/ \E s \in entryNames :
               LET prefix == s
               IN  /\ HasPrefix(key, prefix)
                   /\ \/ optDepth = "INFINITY"
                      \/ Len(SplitN(SubSeq(key, Len(prefix) + 1, Len(key)), Slash, 2)) = 1

\* The switch on optDepth in the ForEach callback: whether the annotation with
\* this key is kept.
matchDepth(key, entryNames, optDepth) ==
    IF optDepth \in {"", "0"}
    THEN key \in entryNames
    ELSE \/ key \in entryNames
         \/ \E s \in entryNames :
               LET prefix == IF s # <<Slash>> THEN s \o <<Slash>> ELSE s
               IN  /\ HasPrefix(key, prefix)
                   /\ \/ optDepth = "INFINITY"
                      \/ Len(SplitN(SubSeq(key, Len(prefix) + 1, Len(key)), Slash, 2)) = 1

\* scopeRows without the filter on MailboxID.
scopeRowsEveryMailbox(d, mailboxName) == d

\* The rows of the scope of the query, in the order ForEach visits them.
scopeRows(d, mailboxName) ==
    SelectSeq(d, LAMBDA a : a.MailboxID = xmailbox(mailboxName))

max(a, b) == IF a > b THEN a ELSE b

\* forEachAnnotation with longentries set to the length of the last value
\* skipped.
RECURSIVE forEachAnnotationLastSkipped(_, _, _, _, _)
forEachAnnotationLastSkipped(g, rows, optMaxSize, optDepth, entryNames) ==
    IF rows = <<>>
    THEN g
    ELSE LET a == Head(rows)
             h == IF ~matchDepth(a.Key, entryNames, optDepth)
                  THEN g
                  ELSE IF optMaxSize >= 0 /\ len(a.Value) > optMaxSize
                       THEN [g EXCEPT !.longentries = len(a.Value)]
                       ELSE [g EXCEPT !.annotations = Append(g.annotations, a)]
         IN  forEachAnnotationLastSkipped(h, Tail(rows), optMaxSize, optDepth, entryNames)

\* Row a appended to annotations n times.
RECURSIVE appendTimes(_, _, _)
appendTimes(annotations, a, n) ==
    IF n = 0 THEN annotations ELSE appendTimes(Append(annotations, a), a, n - 1)

\* forEachAnnotation that keeps a row once for every entry name matching it.
RECURSIVE forEachAnnotationPerEntryName(_, _, _, _, _)
forEachAnnotationPerEntryName(g, rows, optMaxSize, optDepth, entryNames) ==
    IF rows = <<>>
    THEN g
    ELSE LET a == Head(rows)
             n == Cardinality({s \in entryNames : matchDepth(a.Key, {s}, optDepth)})
             h == IF n = 0
                  THEN g
                  ELSE IF optMaxSize >= 0 /\ len(a.Value) > optMaxSize
                       THEN [g EXCEPT !.longentries = max(g.longentries, len(a.Value))]
                       ELSE [g EXCEPT !.annotations = appendTimes(g.annotations, a, n)]
         IN  forEachAnnotationPerEntryName(h, Tail(rows), optMaxSize, optDepth, entryNames)

\* q.ForEach over rows: g = [annotations, longentries].
RECURSIVE forEachAnnotation(_, _, _, _, _)
forEachAnnotation(g, rows, optMaxSize, optDepth, entryNames) ==
    IF rows = <<>>
    THEN g
    ELSE LET a == Head(rows)
             h == IF ~matchDepth(a.Key, entryNames, optDepth)
                  THEN g
                  ELSE IF optMaxSize >= 0 /\ len(a.Value) > optMaxSize
                       THEN [g EXCEPT !.longentries = max(g.longentries, len(a.Value))]
                       ELSE [g EXCEPT !.annotations = Append(g.annotations, a)]
         IN  forEachAnnotation(h, Tail(rows), optMaxSize, optDepth, entryNames)

\* One entry-value pair of the untagged response: a quoted string when
\* IsString, a literal otherwise.
packValue(a) ==
    [key |-> a.Key, encoding |-> IF a.IsString THEN "string0" ELSE "literal", value |-> a.Value.b]

\* untaggedMetadata writing the untagged response also without matches.
untaggedMetadataAlways(mailboxName, annotations) ==
    <<[mailbox |-> mailboxName,
       items |-> [i \in 1..Len(annotations) |-> packValue(annotations[i])]]>>

\* "* METADATA mailbox (entry value ...)", only when there are matches.
untaggedMetadata(mailboxName, annotations) ==
    IF Len(annotations) > 0
    THEN <<[mailbox |-> mailboxName,
            items |-> [i \in 1..Len(annotations) |-> packValue(annotations[i])]]>>
    ELSE <<>>

\* The response of GETMETADATA on table d, after the options are parsed.
getmetadata(d, optMaxSize, optDepth, mailboxName, entryNames) ==
    LET g == forEachAnnotation([annotations |-> <<>>, longentries |-> -1],
                               scopeRows(d, mailboxName), optMaxSize, optDepth, entryNames)
    IN  IF g.longentries >= 0
        THEN Response("OK", "METADATA LONGENTRIES", g.longentries,
                      untaggedMetadata(mailboxName, g.annotations))
        ELSE Response("OK", "", -1, untaggedMetadata(mailboxName, g.annotations))

\* The handler of GETMETADATA [(opts)] mailboxName (entries).
cmdGetmetadata(opts, mailboxName, entries) ==
    LET o == parseOptions([optMaxSize |-> -1, optDepth |-> "", err |-> NoResponse], opts)
    IN  /\ UNCHANGED confVars
        /\ UNCHANGED importVars
        /\ UNCHANGED sessionVars
        /\ req' = Request("GETMETADATA", opts, mailboxName, entries, <<>>)
        /\ dbBefore' = db
        /\ db' = db
        /\ broadcast' = <<>>
        /\ resp' = IF o.err # NoResponse
                   THEN o.err
                   ELSE getmetadata(db, o.optMaxSize, o.optDepth, mailboxName, entryNamesOf(entries))

----------------------------------------------------------------------------
\* The two handlers step by step, for connections of one account that run
\* concurrently. A command is parsed, then waits for the account lock, then
\* runs its transaction on the table, then releases the lock and answers.
\*
\* The table db is written in place by the open write transaction, row
\* operation by row operation; a rollback puts back the table of the begin of
\* the transaction. What a transaction can see of another one is therefore
\* decided by the account lock alone.

Connections == {1, 2}

Idle ==
    [pc |-> "idle", cmd |-> "", mailboxName |-> <<>>, l |-> <<>>, opts |-> <<>>, entries |-> <<>>,
     optMaxSize |-> -1, optDepth |-> "", i |-> 0, base |-> <<>>, changes |-> <<>>,
     resp |-> NoResponse]

\* account.WithWLock waits until no connection holds the lock.
WLockFree(lk) == lk.w = 0 /\ lk.r = {}
\* account.WithRLock waits until no connection holds the write lock.
RLockFree(lk) == lk.w = 0

\* SETMETADATA is parsed and its entry names are checked, before the lock.
setParse(c, mailboxName, l) ==
    /\ conns[c].pc = "idle"
    /\ conns' = [conns EXCEPT ![c] =
                    IF checkEntryNames(l) # ""
                    THEN [Idle EXCEPT !.pc = "respond", !.cmd = "SETMETADATA",
                                      !.resp = xuserErrorf]
                    ELSE [Idle EXCEPT !.pc = "wlock", !.cmd = "SETMETADATA",
                                      !.mailboxName = mailboxName, !.l = l]]
    /\ UNCHANGED <<db, dbBefore, req, resp, broadcast, lock, committed>>
    /\ UNCHANGED confVars
    /\ UNCHANGED importVars

\* setWLock entering without waiting for the lock.
setWLockNoWait(c) ==
    /\ conns[c].pc = "wlock"
    /\ lock' = [lock EXCEPT !.w = c]
    /\ conns' = [conns EXCEPT ![c].pc = "tx", ![c].i = 1, ![c].base = db]
    /\ UNCHANGED <<db, dbBefore, req, resp, broadcast, committed>>
    /\ UNCHANGED confVars
    /\ UNCHANGED importVars

\* c.account.WithWLock(func() { c.xdbwrite(func(tx) {: the lock is taken and
\* the write transaction begins.
setWLock(c) ==
    /\ conns[c].pc = "wlock"
    /\ WLockFree(lock)
    /\ lock' = [lock EXCEPT !.w = c]
    /\ conns' = [conns EXCEPT ![c].pc = "tx", ![c].i = 1, ![c].base = db]
    /\ UNCHANGED <<db, dbBefore, req, resp, broadcast, committed>>
    /\ UNCHANGED confVars
    /\ UNCHANGED importVars

\* One round of the loop over l in the transaction of connection c.
setRow(c) ==
    LET s  == conns[c]
        st == setAnnotation([tx |-> db, changes |-> s.changes, err |-> NoResponse],
                            s.l[s.i], xmailbox(s.mailboxName), s.mailboxName)
    IN  /\ s.pc = "tx"
        /\ s.i <= Len(s.l)
        /\ IF st.err # NoResponse
           THEN /\ db' = s.base
                /\ conns' = [conns EXCEPT ![c].pc = "unlock", ![c].resp = st.err]
           ELSE /\ db' = st.tx
                /\ conns' = [conns EXCEPT ![c].i = s.i + 1, ![c].changes = st.changes]
        /\ UNCHANGED <<dbBefore, req, resp, broadcast, lock, committed>>
        /\ UNCHANGED confVars
        /\ UNCHANGED importVars

\* setQuota giving up the lock when its transaction commits.
setQuotaReleasesLock(c) ==
    LET s == conns[c]
        quota == checkQuota(db, 1, 0, 0)
    IN  /\ s.pc = "tx"
        /\ s.i > Len(s.l)
        /\ lock' = [lock EXCEPT !.w = IF quota = NoResponse THEN 0 ELSE lock.w]
        /\ IF quota = NoResponse
           THEN /\ db' = db
                /\ committed' = db
                /\ conns' = [conns EXCEPT ![c].pc = "broadcast", ![c].resp = ok]
           ELSE /\ db' = s.base
                /\ committed' = committed
                /\ conns' = [conns EXCEPT ![c].pc = "unlock", ![c].resp = quota]
        /\ UNCHANGED <<dbBefore, req, resp, broadcast>>
        /\ UNCHANGED confVars
        /\ UNCHANGED importVars

\* The quota scan at the end of the transaction of connection c, and the end
\* of c.xdbwrite: the transaction commits, or the error rolls it back and
\* leaves WithWLock without the broadcast.
setQuota(c) ==
    LET s == conns[c]
        quota == checkQuota(db, 1, 0, 0)
    IN  /\ s.pc = "tx"
        /\ s.i > Len(s.l)
        /\ IF quota = NoResponse
           THEN /\ db' = db
                /\ committed' = db
                /\ conns' = [conns EXCEPT ![c].pc = "broadcast", ![c].resp = ok]
           ELSE /\ db' = s.base
                /\ committed' = committed
                /\ conns' = [conns EXCEPT ![c].pc = "unlock", ![c].resp = quota]
        /\ UNCHANGED <<dbBefore, req, resp, broadcast, lock>>
        /\ UNCHANGED confVars
        /\ UNCHANGED importVars

\* setBroadcast with the lock given up before the changes are handed over.
setBroadcastAfterRelease(c) ==
    /\ conns[c].pc = "broadcast"
    /\ IF lock.w = c
       THEN /\ lock' = [lock EXCEPT !.w = 0]
            /\ UNCHANGED <<broadcast, conns>>
       ELSE /\ broadcast' = conns[c].changes
            /\ conns' = [conns EXCEPT ![c].pc = "unlock"]
            /\ lock' = lock
    /\ UNCHANGED <<db, dbBefore, req, resp, committed>>
    /\ UNCHANGED confVars
    /\ UNCHANGED importVars

\* c.broadcast(changes), the last statement of the function WithWLock runs.
setBroadcast(c) ==
    /\ conns[c].pc = "broadcast"
    /\ broadcast' = conns[c].changes
    /\ conns' = [conns EXCEPT ![c].pc = "unlock"]
    /\ UNCHANGED <<db, dbBefore, req, resp, lock, committed>>
    /\ UNCHANGED confVars
    /\ UNCHANGED importVars

\* setUnlock leaving the lock held.
setUnlockNoRelease(c) ==
    /\ conns[c].pc = "unlock"
    /\ conns' = [conns EXCEPT ![c] =
                    [Idle EXCEPT !.pc = "respond", !.cmd = conns[c].cmd, !.resp = conns[c].resp]]
    /\ UNCHANGED <<db, dbBefore, req, resp, broadcast, lock, committed>>
    /\ UNCHANGED confVars
    /\ UNCHANGED importVars

\* WithWLock returns, after the function or on its error: the lock is released.
setUnlock(c) ==
    /\ conns[c].pc = "unlock"
    /\ lock' = [lock EXCEPT !.w = IF lock.w = c THEN 0 ELSE lock.w]
    /\ conns' = [conns EXCEPT ![c] =
                    [Idle EXCEPT !.pc = "respond", !.cmd = conns[c].cmd, !.resp = conns[c].resp]]
    /\ UNCHANGED <<db, dbBefore, req, resp, broadcast, committed>>
    /\ UNCHANGED confVars
    /\ UNCHANGED importVars

\* c.ok(tag, cmd), or the error response: the command of connection c ends.
respond(c) ==
    /\ conns[c].pc = "respond"
    /\ conns' = [conns EXCEPT ![c] = Idle]
    /\ UNCHANGED <<db, dbBefore, req, resp, broadcast, lock, committed>>
    /\ UNCHANGED confVars
    /\ UNCHANGED importVars
\* GETMETADATA and its options are parsed, before the lock.
getParse(c, opts, mailboxName, entries) ==
    LET o == parseOptions([optMaxSize |-> -1, optDepth |-> "", err |-> NoResponse], opts)
    IN  /\ conns[c].pc = "idle"
        /\ conns' = [conns EXCEPT ![c] =
                        IF o.err # NoResponse
                        THEN [Idle EXCEPT !.pc = "respond", !.cmd = "GETMETADATA",
                                          !.opts = opts, !.resp = o.err]
                        ELSE [Idle EXCEPT !.pc = "rlock", !.cmd = "GETMETADATA", !.opts = opts,
                                          !.mailboxName = mailboxName, !.entries = entries,
                                          !.optMaxSize = o.optMaxSize, !.optDepth = o.optDepth]]
        /\ UNCHANGED <<db, dbBefore, req, resp, broadcast, lock, committed>>
        /\ UNCHANGED confVars
        /\ UNCHANGED importVars

\* getRLock entering without waiting for the lock.
getRLockNoWait(c) ==
    /\ conns[c].pc = "rlock"
    /\ lock' = [lock EXCEPT !.r = lock.r \cup {c}]
    /\ conns' = [conns EXCEPT ![c].pc = "rtx"]
    /\ UNCHANGED <<db, dbBefore, req, resp, broadcast, committed>>
    /\ UNCHANGED confVars
    /\ UNCHANGED importVars

\* c.account.WithRLock(func() { c.xdbread(func(tx) {: the lock is taken and
\* the read transaction begins.
getRLock(c) ==
    /\ conns[c].pc = "rlock"
    /\ RLockFree(lock)
    /\ lock' = [lock EXCEPT !.r = lock.r \cup {c}]
    /\ conns' = [conns EXCEPT ![c].pc = "rtx"]
    /\ UNCHANGED <<db, dbBefore, req, resp, broadcast, committed>>
    /\ UNCHANGED confVars
    /\ UNCHANGED importVars

\* The query, with the rows it visits handed to c.broadcast as changes.
getReadBroadcasts(c) ==
    LET s == conns[c]
        rows == scopeRows(db, s.mailboxName)
    IN  /\ s.pc = "rtx"
        /\ conns' = [conns EXCEPT
                        ![c].pc = "runlock",
                        ![c].resp = getmetadata(db, s.optMaxSize, s.optDepth, s.mailboxName,
                                                entryNamesOf(s.entries))]
        /\ broadcast' = [i \in 1..Len(rows) |-> Change(rows[i], s.mailboxName)]
        /\ UNCHANGED <<db, dbBefore, req, resp, lock, committed>>
        /\ UNCHANGED confVars
        /\ UNCHANGED importVars

\* The query over the rows of the scope in the read transaction of c.
getRead(c) ==
    LET s == conns[c]
    IN  /\ s.pc = "rtx"
        /\ conns' = [conns EXCEPT
                        ![c].pc = "runlock",
                        ![c].resp = getmetadata(db, s.optMaxSize, s.optDepth, s.mailboxName,
                                                entryNamesOf(s.entries))]
        /\ UNCHANGED <<db, dbBefore, req, resp, broadcast, lock, committed>>
        /\ UNCHANGED confVars
        /\ UNCHANGED importVars

\* WithRLock returns: the lock is released, the responses are still to write.
getUnlock(c) ==
    /\ conns[c].pc = "runlock"
    /\ lock' = [lock EXCEPT !.r = lock.r \ {c}]
    /\ conns' = [conns EXCEPT ![c] =
                    [Idle EXCEPT !.pc = "respond", !.cmd = conns[c].cmd, !.resp = conns[c].resp]]
    /\ UNCHANGED <<db, dbBefore, req, resp, broadcast, committed>>
    /\ UNCHANGED confVars
    /\ UNCHANGED importVars

----------------------------------------------------------------------------
\* DomainAdd of src/store/import.go, on the live configuration Conf.Dynamic.
\*
\* A Go map is a reference. Conf holds the contents of the two map objects that
\* Conf.Dynamic refers to, as functions from names to configurations: an
\* assignment through any reference to one of these map objects changes Conf.

\* m[k] = v on a map.
MapPut(m, k, v) == [x \in DOMAIN m \cup {k} |-> IF x = k THEN v ELSE m[x]]

MakeAccountConfig(localpart, domain) ==
    [Domain |-> domain, Destinations |-> {localpart}]

\* The configuration of a new domain with its DKIM keys, or an error when a key
\* cannot be generated or written (keyErr).
MakeDomainConfig(domain, accountName, keyErr) ==
    [confDomain |-> [DMARC |-> accountName, TLSRPT |-> accountName],
     err |-> keyErr]

\* writeDynamic(ctx, nc): writes domains.conf and on success makes nc the live
\* configuration; on failure (writeErr) the live configuration stays as it is.
writeDynamic(live, nc, writeErr) ==
    [Dynamic |-> IF writeErr THEN live ELSE nc, err |-> writeErr]

NoCall == [domain |-> "", accountName |-> "", localpart |-> "", rerr |-> "", before |-> <<>>]

\* DomainAdd(ctx, domain, accountName, localpart), under Conf.dynamicMutex.
DomainAdd(domain, accountName, localpart, keyErr, writeErr) ==
    LET c    == Conf
        made == MakeDomainConfig(domain, accountName, keyErr)
        exists == accountName \in DOMAIN c.Accounts
        \* nc := c copies the struct, and nc.Domains is replaced by a new map
        \* filled from c.Domains. nc.Accounts is still the map object of
        \* c.Accounts, so nc.Accounts[accountName] = ... writes into the map of
        \* the live configuration.
        liveAccounts == IF ~exists
                        THEN MapPut(c.Accounts, accountName, MakeAccountConfig(localpart, domain))
                        ELSE c.Accounts
        live == [c EXCEPT !.Accounts = liveAccounts]
        nc   == [Domains |-> MapPut(c.Domains, domain, made.confDomain),
                 Accounts |-> liveAccounts]
        written == writeDynamic(live, nc, writeErr)
        r == IF domain \in DOMAIN c.Domains
             THEN [Dynamic |-> c, rerr |-> "domain already present"]
             ELSE IF made.err
             THEN [Dynamic |-> c, rerr |-> "preparing domain config"]
             ELSE IF exists /\ localpart # ""
             THEN [Dynamic |-> c, rerr |-> "account already exists"]
             ELSE IF ~exists /\ localpart = ""
             THEN [Dynamic |-> c, rerr |-> "account does not yet exist"]
             ELSE IF accountName = ""
             THEN [Dynamic |-> c, rerr |-> "account name is empty"]
             ELSE IF written.err
             THEN [Dynamic |-> written.Dynamic, rerr |-> "writing domains.conf"]
             ELSE [Dynamic |-> written.Dynamic, rerr |-> ""]
    IN  /\ Conf' = r.Dynamic
        /\ called' = [domain |-> domain, accountName |-> accountName,
                      localpart |-> localpart, rerr |-> r.rerr, before |-> Conf]
        /\ UNCHANGED imapVars
        /\ UNCHANGED sessionVars
        /\ UNCHANGED importVars

----------------------------------------------------------------------------
\* MboxReader and MaildirReader of src/store/import.go.
\*
\* A file is a sequence of lines, a line a sequence of bytes (one-character
\* strings) that ends with "\n", except that the last line of a file may lack
\* it. Flags and the received time of a message are left out; the temporary
\* file of a message is the sequence of the lines written to it.

CR == "\r"
LF == "\n"
CRLF == <<CR, LF>>
from == <<"F", "r", "o", "m", " ">>

HasSuffix(s, suffix) ==
    /\ Len(s) >= Len(suffix)
    /\ SubSeq(s, Len(s) - Len(suffix) + 1, Len(s)) = suffix

\* r.ReadBytes('\n') on the unread lines: the next line with its "\n", or what
\* is left of the file together with io.EOF.
ReadBytes(r) ==
    IF r = <<>>
    THEN [line |-> <<>>, err |-> "EOF", r |-> <<>>]
    ELSE [line |-> Head(r),
          err |-> IF Head(r)[Len(Head(r))] = LF THEN "" ELSE "EOF",
          r |-> Tail(r)]

\* if !bytes.HasSuffix(line, "\r\n") { line = append(line[:len(line)-1], "\r\n"...) }
crlf(line) ==
    IF ~HasSuffix(line, CRLF)
    THEN SubSeq(line, 1, Len(line) - 1) \o CRLF
    ELSE line

\* bytes.TrimLeft(line, ">")
RECURSIVE TrimLeft(_, _)
TrimLeft(line, c) ==
    IF line # <<>> /\ Head(line) = c THEN TrimLeft(Tail(line), c) ELSE line

\* strings.TrimSpace, for a line that does not begin with white space.
RECURSIVE TrimSpace(_)
TrimSpace(line) ==
    IF line # <<>> /\ line[Len(line)] \in {" ", CR, LF}
    THEN TrimSpace(SubSeq(line, 1, Len(line) - 1))
    ELSE line

\* The result of a call of Next: the error, the lines written to the temporary
\* file, the lines read for them, the Size of the message, and for mbox the
\* number in the file of the line that ended the message (0 at end of file).
Result(kind, err, data, read, size, sep) ==
    [kind |-> kind, err |-> err, data |-> data, read |-> read, Size |-> size, sep |-> sep]

NoResult == Result("", "", <<>>, <<>>, 0, 0)

\* The reader before NewMboxReader.
NoMboxReader ==
    [open |-> FALSE, file |-> <<>>, r |-> <<>>, line |-> 1, eof |-> FALSE, nonfirst |-> FALSE,
     header |-> FALSE, prevempty |-> FALSE, fromLine |-> <<>>]

\* The loop of MboxReader.Next, from reader state m with lines data written
\* for lines read, until a "From " line that ends the message or end of file.
RECURSIVE mboxLines(_, _, _, _)
mboxLines(m, data, read, size) ==
    LET rb == ReadBytes(m.r)
        m1 == [m EXCEPT !.r = rb.r,
                        !.line = IF Len(rb.line) > 0 THEN m.line + 1 ELSE m.line]
        line == crlf(rb.line)
        m2 == [m1 EXCEPT !.header = IF line = CRLF THEN FALSE ELSE m1.header]
        written == IF HasPrefix(line, <<">">>) /\ HasPrefix(TrimLeft(line, ">"), from)
                   THEN Tail(line)
                   ELSE line
        m3 == [m2 EXCEPT !.prevempty = (written = CRLF)]
    IN  IF Len(rb.line) > 0 /\ m.prevempty /\ HasPrefix(line, from)
        THEN \* Next mail message starts at bare From word.
             [mr |-> [m2 EXCEPT !.fromLine = TrimSpace(line), !.header = TRUE],
              data |-> data, read |-> read, size |-> size, sep |-> m1.line - 1]
        ELSE IF Len(rb.line) > 0
        THEN IF rb.err = "EOF"
             THEN [mr |-> [m3 EXCEPT !.eof = TRUE],
                   data |-> Append(data, written), read |-> Append(read, rb.line),
                   size |-> size + Len(written), sep |-> 0]
             ELSE mboxLines(m3, Append(data, written), Append(read, rb.line),
                            size + Len(written))
        ELSE [mr |-> [m1 EXCEPT !.eof = TRUE],
              data |-> data, read |-> read, size |-> size, sep |-> 0]

\* NewMboxReader(createTemp, filename, r, log) on a file.
NewMboxReader(file) ==
    [NoMboxReader EXCEPT !.open = TRUE, !.file = file, !.r = file]

\* MboxReader.Next: the reader after the call and the result of the call.
\* tempErr is the failure of createTemp.
MboxReaderNext(m, tempErr) ==
    LET rb == ReadBytes(m.r)
        \* First read, we're at the beginning of the file.
        first == [m EXCEPT !.header = TRUE, !.r = rb.r]
        m1 == IF m.nonfirst
              THEN m
              ELSE [first EXCEPT !.line = first.line + 1, !.nonfirst = TRUE,
                                 !.fromLine = TrimSpace(rb.line)]
        l == mboxLines(m1, <<>>, <<>>, 0)
    IN  IF m.eof
        THEN [mr |-> m, out |-> Result("mbox", "EOF", <<>>, <<>>, 0, 0)]
        ELSE IF ~m.nonfirst /\ rb.err = "EOF"
        THEN [mr |-> first, out |-> Result("mbox", "EOF", <<>>, <<>>, 0, 0)]
        ELSE IF ~m.nonfirst /\ ~HasPrefix(rb.line, from)
        THEN [mr |-> [first EXCEPT !.line = first.line + 1],
              out |-> Result("mbox", "first line does not start with From", <<>>, <<>>, 0, 0)]
        ELSE IF tempErr
        THEN [mr |-> m1, out |-> Result("mbox", "createTemp", <<>>, <<>>, 0, 0)]
        ELSE [mr |-> l.mr, out |-> Result("mbox", "", l.data, l.read, l.size, l.sep)]

\* The reader before NewMaildirReader: the entries not yet read from the
\* directories newf and curf, the directory being read, its name, and the
\* entries read and not yet returned. An entry is the message file it names.
NoMaildirReader ==
    [open |-> FALSE, newf |-> <<>>, curf |-> <<>>, f |-> "", dir |-> "", entries |-> <<>>]

\* NewMaildirReader(createTemp, newf, curf, log).
NewMaildirReader(newf, curf) ==
    [NoMaildirReader EXCEPT !.open = TRUE, !.newf = newf, !.curf = curf, !.f = "newf"]

\* The copy loop of MaildirReader.Next over the unread lines r of a message
\* file.
RECURSIVE maildirLines(_, _, _, _)
maildirLines(r, data, read, size) ==
    LET rb == ReadBytes(r)
        line == crlf(rb.line)
    IN  IF Len(rb.line) > 0
        THEN IF rb.err = "EOF"
             THEN [data |-> Append(data, line), read |-> Append(read, rb.line),
                   size |-> size + Len(line)]
             ELSE maildirLines(rb.r, Append(data, line), Append(read, rb.line),
                               size + Len(line))
        ELSE [data |-> data, read |-> read, size |-> size]

\* MaildirReader.Next: the reader after the call and the result of the call.
\* mr.f.ReadDir(100) gives the entries of the directory that are not yet read.
RECURSIVE MaildirReaderNext(_, _)
MaildirReaderNext(m, tempErr) ==
    LET m1 == [m EXCEPT !.dir = IF m.dir = "" THEN m.f ELSE m.dir]
        m2 == IF Len(m1.entries) = 0
              THEN [m1 EXCEPT !.entries = m1[m1.f], ![m1.f] = <<>>]
              ELSE m1
        m3 == [m2 EXCEPT !.entries = Tail(m2.entries)]
        l  == maildirLines(Head(m2.entries), <<>>, <<>>, 0)
    IN  IF Len(m2.entries) = 0
        THEN IF m2.f = "curf"
             THEN [mr |-> m2, out |-> Result("maildir", "EOF", <<>>, <<>>, 0, 0)]
             ELSE MaildirReaderNext([m2 EXCEPT !.f = "curf", !.dir = ""], tempErr)
        ELSE IF tempErr
        THEN [mr |-> m3, out |-> Result("maildir", "createTemp", <<>>, <<>>, 0, 0)]
        ELSE [mr |-> m3, out |-> Result("maildir", "", l.data, l.read, l.size, 0)]

\* A call of NewMboxReader on a file, before any other reader is made.
OpenMbox(file) ==
    /\ ~mr.open /\ ~mdr.open
    /\ mr' = NewMboxReader(file)
    /\ UNCHANGED <<mdr, out>>
    /\ UNCHANGED <<imapVars, confVars, sessionVars>>

\* A call of mr.Next() of the MboxReader.
MboxNext(tempErr) ==
    /\ mr.open
    /\ LET n == MboxReaderNext(mr, tempErr)
       IN  /\ mr' = n.mr
           /\ out' = n.out
    /\ UNCHANGED mdr
    /\ UNCHANGED <<imapVars, confVars, sessionVars>>

\* A call of NewMaildirReader on two directories, before any other reader is made.
OpenMaildir(newf, curf) ==
    /\ ~mr.open /\ ~mdr.open
    /\ mdr' = NewMaildirReader(newf, curf)
    /\ UNCHANGED <<mr, out>>
    /\ UNCHANGED <<imapVars, confVars, sessionVars>>

\* A call of mr.Next() of the MaildirReader.
MaildirNext(tempErr) ==
    /\ mdr.open
    /\ LET n == MaildirReaderNext(mdr, tempErr)
       IN  /\ mdr' = n.mr
           /\ out' = n.out
    /\ UNCHANGED mr
    /\ UNCHANGED <<imapVars, confVars, sessionVars>>

----------------------------------------------------------------------------
\* Entry names and values of the commands.

strSlash == <<Slash>>
kA == strPrivate \o <<"a">>                     \* /private/a
kAB == kA \o <<Slash, "b">>                     \* /private/a/b
kABC == kAB \o <<Slash, "c">>                   \* /private/a/b/c
kAb == kA \o <<"b">>                            \* /private/ab
kShared == <<"/", "s", "h", "a", "r", "e", "d", "/", "a">>

v1 == Bytes(<<1>>)
v3 == Bytes(<<3, 3, 3>>)
vLong == Bytes([i \in 1..12 |-> 2])
vHuge == Bytes([i \in 1..17 |-> 9])

\* A parsed pair: store.Annotation{Key: key, IsString: isString, Value: value}.
Pair(key, isString, value) == Annotation(0, key, isString, value)

\* All sequences over S of length 1..n.
RECURSIVE SeqsUpTo(_, _)
SeqsUpTo(S, n) ==
    IF n = 0
    THEN {}
    ELSE {<<x>> : x \in S} \cup SeqsUpTo(S, n - 1)
            \cup {Append(q, x) : q \in SeqsUpTo(S, n - 1), x \in S}

\* Pairs of SETMETADATA: the nil marker, a short and a long string for
\* /private/a, a literal and an empty string for a second valid name, and a
\* name of the shared namespace.
SetPairs ==
    {Pair(kA, FALSE, NilValue), Pair(kA, TRUE, v1), Pair(kA, TRUE, vLong),
     Pair(kAB, FALSE, v1), Pair(kAB, TRUE, Bytes(<<>>)), Pair(kShared, TRUE, v1)}

SetLists == SeqsUpTo(SetPairs, MaxPairs)

Init ==
    /\ db = <<>>
    /\ dbBefore = <<>>
    /\ req = NoRequest
    /\ resp = NoResponse
    /\ broadcast = <<>>
    /\ Conf = [Domains |-> [d \in {"mox.example"} |-> [DMARC |-> "mjl", TLSRPT |-> "mjl"]],
               Accounts |-> [a \in {"mjl"} |-> MakeAccountConfig("mjl", "mox.example")]]
    /\ called = NoCall
    /\ lock = [w |-> 0, r |-> {}]
    /\ conns = [c \in Connections |-> Idle]
    /\ committed = <<>>
    /\ mr = NoMboxReader
    /\ mdr = NoMaildirReader
    /\ out = NoResult

Setmetadata ==
    /\ req = NoRequest
    /\ \E mailboxName \in MailboxNames, l \in SetLists : cmdSetmetadata(mailboxName, l)

Getmetadata ==
    /\ req = NoRequest
    /\ \E mailboxName \in MailboxNames, key \in {kA, kAB} : cmdGetmetadata(<<>>, mailboxName, <<key>>)

Next == Setmetadata \/ Getmetadata \/ nextCommand

Spec == Init /\ [][Next]_vars

----------------------------------------------------------------------------
\* Entry names built from path segments, for the checks on entry names.

segPrivate == <<"p", "r", "i", "v", "a", "t", "e">>
segShared == <<"s", "h", "a", "r", "e", "d">>
segVendor == <<"v", "e", "n", "d", "o", "r">>
segVendorx == segVendor \o <<"x">>
Segments == {segVendor, segVendorx, <<"x">>, <<>>}

\* The names with at most n segments after the namespace ns.
RECURSIVE NamesBelow(_, _)
NamesBelow(ns, n) ==
    IF n = 0
    THEN {strSlash \o ns}
    ELSE NamesBelow(ns, n - 1)
            \cup {k \o strSlash \o seg : k \in NamesBelow(ns, n - 1), seg \in Segments}

GeneratedNames == NamesBelow(segPrivate, MaxSegments) \cup NamesBelow(segShared, MaxSegments)

SetGeneratedName ==
    /\ req = NoRequest
    /\ \E key \in GeneratedNames, value \in {vHuge, NilValue} :
        cmdSetmetadata(<<>>, <<Pair(key, TRUE, value)>>)

NextNames == SetGeneratedName \/ nextCommand

SpecNames == Init /\ [][NextNames]_vars

----------------------------------------------------------------------------
\* A hierarchy of entry names, for the matching of GETMETADATA.

HierarchyCommands ==
    {<<<<>>, Pair(kA, TRUE, v1)>>, <<<<>>, Pair(kAB, FALSE, v3)>>, <<<<>>, Pair(kABC, TRUE, v1)>>,
     <<<<>>, Pair(kAb, TRUE, Bytes(<<>>))>>, <<strInbox, Pair(kA, FALSE, v3)>>}

SetHierarchy ==
    /\ req = NoRequest
    /\ \E c \in HierarchyCommands : cmdSetmetadata(c[1], <<c[2]>>)

GetOptions ==
    {Option("MAXSIZE", 0, ""), Option("MAXSIZE", 1, ""), Option("DEPTH", 0, "0"), Option("DEPTH", 0, "1"),
     Option("DEPTH", 0, "INFINITY")}

GetOptionLists == {<<>>} \cup SeqsUpTo(GetOptions, MaxOpts)

GetEntryLists == SeqsUpTo({strSlash, kA, kAB}, MaxEntries)

GetHierarchy ==
    /\ req = NoRequest
    /\ \E opts \in GetOptionLists, mailboxName \in MailboxNames, entries \in GetEntryLists :
        cmdGetmetadata(opts, mailboxName, entries)

NextGet == SetHierarchy \/ GetHierarchy \/ nextCommand

SpecGet == Init /\ [][NextGet]_vars

----------------------------------------------------------------------------
\* Specification of the configuration: calls of DomainAdd with domains and
\* accounts that exist and that do not, with and without a localpart, and with
\* every outcome of the key generation and of the write of domains.conf.

DomainNames == {"mox.example", "a.example", "b.example"}
AccountNames == {"", "mjl", "x", "y"}
Localparts == {"", "info"}

AddDomain ==
    \E domain \in DomainNames, accountName \in AccountNames, localpart \in Localparts,
       keyErr \in BOOLEAN, writeErr \in BOOLEAN :
        DomainAdd(domain, accountName, localpart, keyErr, writeErr)

NextDomain == AddDomain

SpecDomain == Init /\ [][NextDomain]_vars

----------------------------------------------------------------------------
\* Specification of two connections of one account that interleave their
\* commands: SETMETADATA of one and two pairs in both scopes, which fit alone
\* and do not all fit together, and GETMETADATA of both scopes.

ConcSetCommands ==
    {<<<<>>, <<Pair(kA, TRUE, v1), Pair(kAB, TRUE, vLong)>>>>,
     <<<<>>, <<Pair(kA, TRUE, vLong)>>>>,
     <<<<>>, <<Pair(kAB, FALSE, NilValue)>>>>,
     <<strInbox, <<Pair(kA, TRUE, vLong), Pair(kAB, TRUE, vLong)>>>>,
     <<strInbox, <<Pair(kA, FALSE, NilValue), Pair(kAB, TRUE, v1)>>>>,
     <<strInbox, <<Pair(kShared, TRUE, v1)>>>>}

ConcGetCommands ==
    {<<opts, mailboxName, entries>> :
        opts \in {<<>>, <<Option("DEPTH", 0, "1")>>,
                  <<Option("DEPTH", 0, "0"), Option("DEPTH", 0, "0")>>,
                  <<Option("MAXSIZE", 0, ""), Option("MAXSIZE", 1, "")>>,
                  <<Option("MAXSIZE", 0, ""), Option("DEPTH", 0, "0")>>,
                  <<Option("DEPTH", 0, "1"), Option("UNKNOWN", 0, "")>>},
        mailboxName \in MailboxNames,
        entries \in {<<kA>>, <<kA, kAB>>}}

SetParse == \E c \in Connections, cmd \in ConcSetCommands : setParse(c, cmd[1], cmd[2])
SetWLock == \E c \in Connections : setWLock(c)
SetRow == \E c \in Connections : setRow(c)
SetQuota == \E c \in Connections : setQuota(c)
SetBroadcast == \E c \in Connections : setBroadcast(c)
SetUnlock == \E c \in Connections : setUnlock(c)
Respond == \E c \in Connections : respond(c)
GetParse == \E c \in Connections, cmd \in ConcGetCommands : getParse(c, cmd[1], cmd[2], cmd[3])
GetRLock == \E c \in Connections : getRLock(c)
GetRead == \E c \in Connections : getRead(c)
GetUnlock == \E c \in Connections : getUnlock(c)

NextConc ==
    \/ SetParse \/ SetWLock \/ SetRow \/ SetQuota \/ SetBroadcast \/ SetUnlock
    \/ GetParse \/ GetRLock \/ GetRead \/ GetUnlock
    \/ Respond

SpecConc == Init /\ [][NextConc]_vars

\* The same connections with their scheduling: a handler that can take its
\* next step takes it (each connection runs on its own goroutine), and a
\* connection that waits for the lock gets it when the lock is free again and
\* again.
FairConc ==
    \A c \in Connections :
        /\ WF_vars(setRow(c))
        /\ WF_vars(setQuota(c))
        /\ WF_vars(setBroadcast(c))
        /\ WF_vars(setUnlock(c))
        /\ WF_vars(getRead(c))
        /\ WF_vars(getUnlock(c))
        /\ WF_vars(respond(c))
        /\ SF_vars(setWLock(c))
        /\ SF_vars(getRLock(c))

\* Commands for the specification with scheduling: a SETMETADATA of two pairs
\* and one of one pair that fit alone and not together, and a removal.
LockSetCommands ==
    {<<<<>>, <<Pair(kA, TRUE, vLong), Pair(kAB, TRUE, vLong)>>>>,
     <<strInbox, <<Pair(kA, TRUE, vLong)>>>>,
     <<<<>>, <<Pair(kAB, FALSE, NilValue)>>>>}

LockGetCommands == {<<<<>>, <<>>, <<kA>>>>}

SetParseLock == \E c \in Connections, cmd \in LockSetCommands : setParse(c, cmd[1], cmd[2])
GetParseLock == \E c \in Connections, cmd \in LockGetCommands : getParse(c, cmd[1], cmd[2], cmd[3])

NextLock ==
    \/ SetParseLock \/ SetWLock \/ SetRow \/ SetQuota \/ SetBroadcast \/ SetUnlock
    \/ GetParseLock \/ GetRLock \/ GetRead \/ GetUnlock
    \/ Respond

SpecLock == Init /\ [][NextLock]_vars /\ FairConc

----------------------------------------------------------------------------
\* Properties.

QuotaCodes == {"METADATA TOOMANY", "METADATA MAXSIZE"}

IsSet == req.cmd = "SETMETADATA"
IsGet == req.cmd = "GETMETADATA"

\* The row of table d for key in the scope of mailboxName, as a set.
RowsOf(d, mailboxName, key) ==
    {d[i] : i \in {j \in 1..Len(d) : d[j].Key = key /\ d[j].MailboxID = xmailbox(mailboxName)}}

\* C1: a SETMETADATA rejected with METADATA TOOMANY or METADATA MAXSIZE leaves
\* the persisted annotations exactly as they were before the command.
C1_QuotaErrorRollsBack ==
    (IsSet /\ resp.code \in QuotaCodes) => db = dbBefore

\* A command of two pairs that each insert a new row is rejected for the count.
C1_Witness ==
    /\ IsSet
    /\ resp.code = "METADATA TOOMANY"
    /\ Len(req.l) = 2
    /\ req.l[1].Key # req.l[2].Key
    /\ \A i \in 1..2 :
          /\ ~req.l[i].Value.isNil
          /\ RowsOf(dbBefore, req.mailboxName, req.l[i].Key) = {}

\* len(Key)+len(Value) summed over the rows of table d.
RECURSIVE TotalSize(_)
TotalSize(d) ==
    IF d = <<>> THEN 0 ELSE Len(Head(d).Key) + Len(Head(d).Value.b) + TotalSize(Tail(d))

\* C2: every committed table has at most metadataMaxKeys annotations and at
\* most metadataMaxSize bytes of keys and values, over all scopes together.
C2_WithinLimits ==
    /\ Len(db) <= metadataMaxKeys
    /\ TotalSize(db) <= metadataMaxSize

\* A command is rejected for the size while the table holds the maximum number
\* of rows, in both scopes.
C2_Witness ==
    /\ IsSet
    /\ resp.code = "METADATA MAXSIZE"
    /\ Len(db) = metadataMaxKeys
    /\ \E i, j \in 1..Len(db) : db[i].MailboxID # db[j].MailboxID

\* Whether key lacks the nine characters "/private/" at its start.
NotPrivate(key) ==
    \/ Len(key) < Len(strPrivate)
    \/ \E i \in 1..Len(strPrivate) : key[i] # strPrivate[i]

\* The encoding of a value with text flag isString in the untagged response.
EncodingOf(isString) == IF isString THEN "string0" ELSE "literal"

\* C3: after a successful SETMETADATA that leaves key K at a non-nil value V with
\* flag F in a scope, a GETMETADATA of K in that scope without options returns
\* the one pair (K, V), a quoted string when F is text and a literal otherwise.
C3_RoundTrip ==
    (IsSet /\ resp = ok) =>
        \A i \in 1..Len(req.l) :
            LET a == req.l[i]
            IN  (/\ ~a.Value.isNil
                 /\ \A j \in (i + 1)..Len(req.l) : req.l[j].Key # a.Key)
                => getmetadata(db, -1, "", req.mailboxName, {a.Key}).untagged
                    = <<[mailbox |-> req.mailboxName,
                         items |-> <<[key |-> a.Key, encoding |-> EncodingOf(a.IsString),
                                      value |-> a.Value.b]>>]>>

\* C4: a SETMETADATA with a pair whose entry name does not start with
\* "/private/" fails with a user error, changes no annotation (also not for the
\* valid pairs before it) and publishes no change.
C4_NotPrivateRejected ==
    (IsSet /\ \E i \in 1..Len(req.l) : NotPrivate(req.l[i].Key))
        => /\ resp = xuserErrorf
           /\ db = dbBefore
           /\ broadcast = <<>>

\* A valid pair that would insert a row, followed by a pair of another namespace.
C4_Witness ==
    /\ IsSet
    /\ Len(req.l) = 2
    /\ ~NotPrivate(req.l[1].Key)
    /\ ~req.l[1].Value.isNil
    /\ RowsOf(dbBefore, req.mailboxName, req.l[1].Key) = {}
    /\ NotPrivate(req.l[2].Key)
    /\ resp = xuserErrorf

\* Whether key is "/private/vendor" or starts with "/private/vendor/".
VendorName(key) ==
    \/ key = strPrivateVendor
    \/ /\ Len(key) > Len(strPrivateVendor)
       /\ \A i \in 1..Len(strPrivateVendor) : key[i] = strPrivateVendor[i]
       /\ key[Len(strPrivateVendor) + 1] = Slash

\* The number of path segments that follow "/private/vendor" in key.
SegmentsAfterVendor(key) ==
    Cardinality({i \in (Len(strPrivateVendor) + 1)..Len(key) : key[i] = Slash})

\* C5: SETMETADATA rejects a name under "/private/" exactly when it is
\* "/private/vendor" or starts with "/private/vendor/" and fewer than 2 segments
\* follow "vendor"; no persisted vendor key has fewer than 2 such segments.
C5_VendorDepth ==
    /\ (IsSet /\ Len(req.l) = 1 /\ ~NotPrivate(req.l[1].Key))
        => ((resp = xuserErrorf)
              <=> (VendorName(req.l[1].Key) /\ SegmentsAfterVendor(req.l[1].Key) < 2))
    /\ \A i \in 1..Len(db) :
          VendorName(db[i].Key) => SegmentsAfterVendor(db[i].Key) >= 2

\* A vendor name with one segment after "vendor" is rejected while a vendor
\* name with two segments is stored.
C5_Witness ==
    /\ IsSet
    /\ resp = xuserErrorf
    /\ VendorName(req.l[1].Key)
    /\ SegmentsAfterVendor(req.l[1].Key) = 1
    /\ \E i \in 1..Len(db) : VendorName(db[i].Key)

\* The keys of the pairs of the last command, each named once.
DistinctKeys(l) == \A i, j \in 1..Len(l) : i # j => l[i].Key # l[j].Key

\* C6: the change batch of a successful SETMETADATA has exactly one record for
\* each pair that created a row, deleted a row or changed the value or the flag
\* of a row, and none for the other pairs (commands naming each key once).
C6_OneChangePerChangedRow ==
    (IsSet /\ resp = ok /\ DistinctKeys(req.l))
        => Len(broadcast)
            = Cardinality({i \in 1..Len(req.l) :
                            RowsOf(db, req.mailboxName, req.l[i].Key)
                                # RowsOf(dbBefore, req.mailboxName, req.l[i].Key)})

\* The last record of the batch for the key of record i.
LastForKey(i) ==
    \A j \in (i + 1)..Len(broadcast) : broadcast[j].A.Key # broadcast[i].A.Key

\* C7: the changes of a SETMETADATA are published only when its transaction
\* committed: a failed command publishes nothing, and the last published
\* record of a key tells the committed state, the row removed or holding the
\* value of the record.
C7_PublishedOnlyWhenCommitted ==
    IsSet =>
        /\ resp # ok => broadcast = <<>>
        /\ \A i \in 1..Len(broadcast) :
              LastForKey(i) =>
                  \A r \in RowsOf(db, req.mailboxName, broadcast[i].A.Key) :
                      r.Value = broadcast[i].A.Value

\* A command that staged a new value for an existing row is rejected for the
\* size, and nothing is published.
C7_Witness ==
    /\ IsSet
    /\ resp.code = "METADATA MAXSIZE"
    /\ broadcast = <<>>
    /\ \E i \in 1..Len(req.l) :
          /\ ~req.l[i].Value.isNil
          /\ \E r \in RowsOf(dbBefore, req.mailboxName, req.l[i].Key) :
                r.Value # req.l[i].Value

\* C8: a SETMETADATA whose pairs all remove one key succeeds and leaves the
\* table without the row of that key, however often the pair is repeated; when
\* the key has no row the table is unchanged and no change is recorded.
C8_RemoveIsIdempotent ==
    (/\ IsSet
     /\ \A i \in 1..Len(req.l) :
           /\ req.l[i].Value.isNil
           /\ req.l[i].Key = req.l[1].Key
           /\ ~NotPrivate(req.l[i].Key))
        => /\ resp = ok
           /\ db = SelectSeq(dbBefore,
                    LAMBDA r : r \notin RowsOf(dbBefore, req.mailboxName, req.l[1].Key))
           /\ RowsOf(dbBefore, req.mailboxName, req.l[1].Key) = {}
                => (db = dbBefore /\ broadcast = <<>>)

\* A key without a row in the scope is removed twice in one command, while the
\* table holds other rows.
C8_Witness ==
    /\ IsSet
    /\ Len(req.l) = 2
    /\ \A i \in 1..2 : req.l[i].Value.isNil /\ req.l[i].Key = kA
    /\ RowsOf(dbBefore, req.mailboxName, kA) = {}
    /\ dbBefore # <<>>
    /\ resp = ok

\* The keys stored in the scope of mailboxName.
ScopeKeys(d, mailboxName) ==
    {d[i].Key : i \in {j \in 1..Len(d) : d[j].MailboxID = xmailbox(mailboxName)}}

\* The keys of the untagged METADATA response of the last command.
ReturnedKeys ==
    IF resp.untagged = <<>>
    THEN {}
    ELSE {resp.untagged[1].items[i].key : i \in 1..Len(resp.untagged[1].items)}

StartsWith(k, p) ==
    /\ Len(k) >= Len(p)
    /\ \A i \in 1..Len(p) : k[i] = p[i]

\* The prefix of the descendants of entry e.
PrefixOf(e) == IF e = strSlash THEN e ELSE e \o strSlash

OneLevelBelow(k, e) ==
    /\ StartsWith(k, PrefixOf(e))
    /\ \A i \in (Len(PrefixOf(e)) + 1)..Len(k) : k[i] # Slash

\* C9: GETMETADATA with DEPTH 1 returns the keys of the scope that are a
\* requested entry name, or start with e+"/" for a requested entry e ("/" when
\* e is "/") with no further "/" after that prefix.
C9_DepthOne ==
    (IsGet /\ req.opts = <<Option("DEPTH", 0, "1")>>)
        => /\ resp.status = "OK"
           /\ ReturnedKeys
                = {k \in ScopeKeys(db, req.mailboxName) :
                        \/ k \in entryNamesOf(req.entries)
                        \/ \E e \in entryNamesOf(req.entries) : OneLevelBelow(k, e)}

\* /private/a, /private/a/b and /private/a/b/c are stored, /private/a is
\* requested: the first two are returned.
C9_Witness ==
    /\ IsGet
    /\ req.opts = <<Option("DEPTH", 0, "1")>>
    /\ req.entries = <<kA>>
    /\ ScopeKeys(db, req.mailboxName) = {kA, kAB, kABC}
    /\ ReturnedKeys = {kA, kAB}

\* C10 as stated: GETMETADATA with DEPTH INFINITY returns the keys of the scope
\* that are a requested entry name or start with e+"/" for a requested entry e.
C10_DepthInfinityAnySlash ==
    (IsGet /\ req.opts = <<Option("DEPTH", 0, "INFINITY")>>)
        => /\ resp.status = "OK"
           /\ ReturnedKeys
                = {k \in ScopeKeys(db, req.mailboxName) :
                        \/ k \in entryNamesOf(req.entries)
                        \/ \E e \in entryNamesOf(req.entries) : StartsWith(k, e \o strSlash)}

\* C10, amended: GETMETADATA with DEPTH INFINITY returns the keys of the scope
\* that are a requested entry name or start with e+"/" for a requested entry e,
\* the prefix being "/" alone when e is "/".
C10_DepthInfinity ==
    (IsGet /\ req.opts = <<Option("DEPTH", 0, "INFINITY")>>)
        => /\ resp.status = "OK"
           /\ ReturnedKeys
                = {k \in ScopeKeys(db, req.mailboxName) :
                        \/ k \in entryNamesOf(req.entries)
                        \/ \E e \in entryNamesOf(req.entries) : StartsWith(k, PrefixOf(e))}

\* /private/a, /private/a/b/c and /private/ab are stored, /private/a is
\* requested: /private/ab is not returned.
C10_Witness ==
    /\ IsGet
    /\ req.opts = <<Option("DEPTH", 0, "INFINITY")>>
    /\ req.entries = <<kA>>
    /\ ScopeKeys(db, req.mailboxName) = {kA, kABC, kAb}
    /\ ReturnedKeys = {kA, kABC}

\* The options of the last command, when each is given at most once: the depth
\* ("" without DEPTH) and the maximum size (-1 without MAXSIZE).
OptionsOnce ==
    \A i, j \in 1..Len(req.opts) :
        i # j => req.opts[i].name # req.opts[j].name

DepthGiven ==
    IF \E i \in 1..Len(req.opts) : req.opts[i].name = "DEPTH"
    THEN (CHOOSE o \in {req.opts[i] : i \in 1..Len(req.opts)} : o.name = "DEPTH").s
    ELSE ""

MaxSizeGiven ==
    IF \E i \in 1..Len(req.opts) : req.opts[i].name = "MAXSIZE"
    THEN (CHOOSE o \in {req.opts[i] : i \in 1..Len(req.opts)} : o.name = "MAXSIZE").n
    ELSE -1

\* The rows of the scope of the last command that its entry names match.
MatchedRows ==
    {a \in {db[i] : i \in 1..Len(db)} :
        /\ a.MailboxID = xmailbox(req.mailboxName)
        /\ \/ a.Key \in entryNamesOf(req.entries)
           \/ /\ DepthGiven = "1"
              /\ \E e \in entryNamesOf(req.entries) : OneLevelBelow(a.Key, e)
           \/ /\ DepthGiven = "INFINITY"
              /\ \E e \in entryNamesOf(req.entries) : StartsWith(a.Key, PrefixOf(e))}

\* The matched rows with a value longer than MAXSIZE.
ExcludedRows ==
    {a \in MatchedRows : MaxSizeGiven >= 0 /\ Len(a.Value.b) > MaxSizeGiven}

\* C11: GETMETADATA with DEPTH 0 answers as the same command without DEPTH:
\* in both a key of the scope is returned iff it is a requested entry name.
C11_DepthZeroIsNoDepth ==
    (IsGet /\ OptionsOnce /\ DepthGiven \in {"", "0"})
        => /\ resp.status = "OK"
           /\ MaxSizeGiven = -1
                => ReturnedKeys = ScopeKeys(db, req.mailboxName) \cap entryNamesOf(req.entries)
           /\ resp = getmetadata(db, MaxSizeGiven, "", req.mailboxName, entryNamesOf(req.entries))

\* DEPTH 0 with /private/a requested while /private/a/b is stored as well.
C11_Witness ==
    /\ IsGet
    /\ req.opts = <<Option("DEPTH", 0, "0")>>
    /\ req.entries = <<kA>>
    /\ {kA, kAB} \subseteq ScopeKeys(db, req.mailboxName)
    /\ ReturnedKeys = {kA}

SetMax(S) == CHOOSE x \in S : \A y \in S : y <= x

\* C12: GETMETADATA with MAXSIZE m returns the matched annotations with a value
\* of at most m bytes; the final OK carries METADATA LONGENTRIES n, n the
\* longest value among the matched annotations left out, when there is one,
\* and is a plain OK otherwise.
C12_MaxSize ==
    (IsGet /\ OptionsOnce /\ MaxSizeGiven >= 0)
        => /\ resp.status = "OK"
           /\ ReturnedKeys = {a.Key : a \in MatchedRows \ ExcludedRows}
           /\ IF ExcludedRows # {}
              THEN /\ resp.code = "METADATA LONGENTRIES"
                   /\ resp.n = SetMax({Len(a.Value.b) : a \in ExcludedRows})
              ELSE /\ resp.code = ""
                   /\ resp.n = -1

\* MAXSIZE 1: the 1-byte value of /private/a is returned, the 3-byte value of
\* /private/a/b is left out and reported, with a third row that does not match.
C12_Witness ==
    /\ IsGet
    /\ req.opts = <<Option("MAXSIZE", 1, ""), Option("DEPTH", 0, "1")>>
    /\ req.entries = <<kA>>
    /\ ScopeKeys(db, req.mailboxName) = {kA, kAB, kABC}
    /\ ReturnedKeys = {kA}
    /\ resp.code = "METADATA LONGENTRIES"
    /\ resp.n = 3

\* C13: a successful GETMETADATA writes at most one untagged METADATA response
\* before its tagged OK, and writes it iff an annotation is returned; with no
\* match and nothing left out only the plain OK is written.
C13_UntaggedIffReturned ==
    (IsGet /\ OptionsOnce)
        => /\ resp.status = "OK"
           /\ Len(resp.untagged) <= 1
           /\ Len(resp.untagged) = 1 <=> MatchedRows \ ExcludedRows # {}
           /\ MatchedRows = {} => resp = ok

\* Every matched annotation is left out for its size: no untagged response,
\* and the OK carries LONGENTRIES.
C13_Witness ==
    /\ IsGet
    /\ OptionsOnce
    /\ MatchedRows # {}
    /\ ExcludedRows = MatchedRows
    /\ resp.untagged = <<>>
    /\ resp.code = "METADATA LONGENTRIES"

\* The table staged by the last SETMETADATA when it reached the quota scan: the
\* table before the command with the pairs of the command applied.
StagedTable ==
    setAnnotations([tx |-> dbBefore, changes |-> <<>>, err |-> NoResponse],
                   req.l, xmailbox(req.mailboxName), req.mailboxName).tx

ReachedQuotaScan == IsSet /\ checkEntryNames(req.l) = ""

\* The bytes of keys and values of the first n rows of table d.
PrefixSize(d, n) == TotalSize(SubSeq(d, 1, IF n < Len(d) THEN n ELSE Len(d)))

\* C16 as stated: a SETMETADATA whose staged table exceeds both the count and
\* the size limit is answered with METADATA TOOMANY.
C16_CountTakesPriority ==
    (/\ ReachedQuotaScan
     /\ Len(StagedTable) > metadataMaxKeys
     /\ TotalSize(StagedTable) > metadataMaxSize)
        => resp.code = "METADATA TOOMANY"

\* C16, amended: the error is that of the limit first exceeded in the scan in
\* row order. METADATA MAXSIZE when the first metadataMaxKeys rows already
\* exceed the size limit, METADATA TOOMANY when they do not and there are more
\* rows, whatever the total size.
C16_FirstLimitInScanOrder ==
    ReachedQuotaScan
        => /\ resp.code = "METADATA MAXSIZE"
                <=> PrefixSize(StagedTable, metadataMaxKeys) > metadataMaxSize
           /\ resp.code = "METADATA TOOMANY"
                <=> /\ Len(StagedTable) > metadataMaxKeys
                    /\ PrefixSize(StagedTable, metadataMaxKeys) <= metadataMaxSize

\* Both limits are exceeded and the count is the one reported.
C16_Witness ==
    /\ ReachedQuotaScan
    /\ Len(StagedTable) > metadataMaxKeys
    /\ TotalSize(StagedTable) > metadataMaxSize
    /\ resp.code = "METADATA TOOMANY"

\* The rows of table d in the scope of mailboxName.
OwnRows(d, mailboxName) ==
    SelectSeq(d, LAMBDA a : a.MailboxID = xmailbox(mailboxName))

\* C17: the limits apply to the annotations of all scopes together: a
\* SETMETADATA is rejected with a quota error, and changes nothing, whenever
\* the staged rows of the global scope and of every mailbox together exceed
\* the count or the size limit, and succeeds otherwise.
C17_QuotaAccountWide ==
    ReachedQuotaScan
        => LET n    == Len(OwnRows(StagedTable, <<>>)) + Len(OwnRows(StagedTable, strInbox))
               size == TotalSize(OwnRows(StagedTable, <<>>)) + TotalSize(OwnRows(StagedTable, strInbox))
           IN  IF n > metadataMaxKeys \/ size > metadataMaxSize
               THEN resp.code \in QuotaCodes /\ db = dbBefore
               ELSE resp = ok /\ db = StagedTable

\* A command is rejected although the rows of its own scope are within both
\* limits: the rows of the other scope make the difference.
C17_Witness ==
    /\ ReachedQuotaScan
    /\ resp.code \in QuotaCodes
    /\ Len(OwnRows(StagedTable, req.mailboxName)) <= metadataMaxKeys
    /\ TotalSize(OwnRows(StagedTable, req.mailboxName)) <= metadataMaxSize
    /\ Len(OwnRows(StagedTable, req.mailboxName)) = 1

\* C18: the table holds at most one annotation per scope and key.
C18_OneRowPerScopeAndKey ==
    \A i, j \in 1..Len(db) :
        (db[i].MailboxID = db[j].MailboxID /\ db[i].Key = db[j].Key) => i = j

\* A command that names one key twice, both times with a value, has committed.
C18_Witness ==
    /\ IsSet
    /\ resp = ok
    /\ Len(req.l) = 2
    /\ req.l[1].Key = req.l[2].Key
    /\ ~req.l[1].Value.isNil
    /\ ~req.l[2].Value.isNil
    /\ RowsOf(db, req.mailboxName, req.l[1].Key) # {}

\* C19: every key in the table begins with "/private/".
C19_PersistedKeysPrivate ==
    \A i \in 1..Len(db) : ~NotPrivate(db[i].Key)

\* A command with a valid pair followed by a pair of the shared namespace is
\* rejected, on a table that holds annotations.
C19_Witness ==
    /\ IsSet
    /\ Len(req.l) = 2
    /\ ~NotPrivate(req.l[1].Key)
    /\ ~req.l[1].Value.isNil
    /\ NotPrivate(req.l[2].Key)
    /\ resp.status = "user error"
    /\ db # <<>>
    /\ db = dbBefore

\* C20: a call of DomainAdd that returns an error leaves no entry in the
\* Domains map or in the Accounts map of Conf.Dynamic that was not there before
\* the call.
C20_ErrorLeavesNoTrace ==
    called.rerr # ""
        => /\ DOMAIN Conf.Domains \subseteq DOMAIN called.before.Domains
           /\ DOMAIN Conf.Accounts \subseteq DOMAIN called.before.Accounts

\* Table d with the first n pairs of the command of connection c applied.
AppliedPairs(d, c, n) ==
    setAnnotations([tx |-> d, changes |-> <<>>, err |-> NoResponse],
                   SubSeq(conns[c].l, 1, n),
                   xmailbox(conns[c].mailboxName), conns[c].mailboxName).tx

WithinLimits(d) == Len(d) <= metadataMaxKeys /\ TotalSize(d) <= metadataMaxSize

\* C14: the result a GETMETADATA has computed when it leaves its read
\* transaction is the result on the table of the last commit: no row staged by
\* a write transaction that is open, or that was rolled back, is part of it.
C14_GetSeesCommittedOnly ==
    \A c \in Connections :
        conns[c].pc = "runlock"
            => /\ conns[c].resp = getmetadata(committed, conns[c].optMaxSize, conns[c].optDepth,
                                              conns[c].mailboxName, entryNamesOf(conns[c].entries))
               /\ lock.w = 0
               /\ db = committed

\* A GETMETADATA has computed a result with annotations while a SETMETADATA of
\* two pairs on its scope, which changes that result, waits for the lock.
C14_Witness ==
    \E c, d \in Connections :
        /\ conns[c].pc = "runlock"
        /\ conns[c].resp.untagged # <<>>
        /\ conns[d].pc = "wlock"
        /\ Len(conns[d].l) = 2
        /\ conns[d].mailboxName = conns[c].mailboxName
        /\ AppliedPairs(db, d, 1) # db

\* C15: the table a SETMETADATA scans for the quota is the last committed
\* table with its own pairs applied, with nothing of another command in it,
\* and every committed table is within the limits.
C15_QuotaScanSerialized ==
    /\ WithinLimits(committed)
    /\ \A c \in Connections :
          conns[c].pc = "tx"
              => /\ conns[c].base = committed
                 /\ db = AppliedPairs(committed, c, conns[c].i - 1)
                 /\ \A d \in Connections \ {c} : conns[d].pc \in {"idle", "wlock", "rlock", "respond"}

\* Two SETMETADATA were sent to one table on which each fits alone and both
\* together do not: the first has committed, the second still waits for the
\* lock and will scan the committed rows of the first.
C15_Witness ==
    \E c, d \in Connections :
        /\ c # d
        /\ conns[c].pc = "unlock"
        /\ conns[c].resp = ok
        /\ committed = AppliedPairs(conns[c].base, c, Len(conns[c].l))
        /\ committed # conns[c].base
        /\ conns[d].pc = "wlock"
        /\ WithinLimits(AppliedPairs(conns[c].base, d, Len(conns[d].l)))
        /\ ~WithinLimits(AppliedPairs(committed, d, Len(conns[d].l)))

\* The rows after the last SETMETADATA as a set of [MailboxID, Key, Value],
\* from the table before it and its pairs: the rows no pair names, and for
\* each key named the value of its last pair, when that is not nil.
PostBatchRows ==
    LET mbID == xmailbox(req.mailboxName)
        Named(k) == \E i \in 1..Len(req.l) : req.l[i].Key = k
        Last(i) == \A j \in (i + 1)..Len(req.l) : req.l[j].Key # req.l[i].Key
    IN  {[MailboxID |-> dbBefore[i].MailboxID, Key |-> dbBefore[i].Key, Value |-> dbBefore[i].Value] :
            i \in {j \in 1..Len(dbBefore) : ~(dbBefore[j].MailboxID = mbID /\ Named(dbBefore[j].Key))}}
        \cup
        {[MailboxID |-> mbID, Key |-> req.l[i].Key, Value |-> req.l[i].Value] :
            i \in {j \in 1..Len(req.l) : Last(j) /\ ~req.l[j].Value.isNil}}

\* The bytes of keys and values of a set of rows.
RECURSIVE SizeOfRows(_)
SizeOfRows(rows) ==
    IF rows = {}
    THEN 0
    ELSE LET a == CHOOSE x \in rows : TRUE
         IN  Len(a.Key) + Len(a.Value.b) + SizeOfRows(rows \ {a})

Reverse(l) == [i \in 1..Len(l) |-> l[Len(l) + 1 - i]]

\* C21: a SETMETADATA is accepted iff the rows after all its pairs are within
\* the limits, whatever the tables in between; with distinct keys the batch in
\* reverse order is accepted on the same table iff the batch is.
C21_QuotaOnPostBatchState ==
    ReachedQuotaScan
        => /\ resp = ok
                <=> /\ Cardinality(PostBatchRows) <= metadataMaxKeys
                    /\ SizeOfRows(PostBatchRows) <= metadataMaxSize
           /\ DistinctKeys(req.l)
                => (resp = ok
                        <=> storeAnnotations(dbBefore, req.mailboxName, Reverse(req.l)).err = NoResponse)

\* On a table with the maximum number of rows a batch that first inserts a new
\* key and then removes an existing one is accepted.
C21_Witness ==
    /\ IsSet
    /\ resp = ok
    /\ Len(dbBefore) = metadataMaxKeys
    /\ Len(req.l) = 2
    /\ ~req.l[1].Value.isNil
    /\ RowsOf(dbBefore, req.mailboxName, req.l[1].Key) = {}
    /\ req.l[2].Value.isNil
    /\ RowsOf(dbBefore, req.mailboxName, req.l[2].Key) # {}
    /\ Len(db) = metadataMaxKeys

\* Whether connection c holds the account lock, for writing or for reading.
HoldsLock(c) == lock.w = c \/ c \in lock.r

\* The steps of connection c that parse a command, write its response, and
\* hand its changes to c.broadcast.
ParseStep(c) == conns[c].pc = "idle" /\ conns'[c].pc # "idle"
RespondStep(c) == conns[c].pc = "respond" /\ conns'[c].pc = "idle"
BroadcastStep(c) == conns[c].pc = "broadcast" /\ conns'[c].pc = "unlock"

\* C22 as stated: parsing, the response and the broadcast of the changes all
\* happen while the connection does not hold the lock.
C22_LockScopeAsStated ==
    [][\A c \in Connections :
          /\ ParseStep(c) => ~HoldsLock(c) /\ ~HoldsLock(c)'
          /\ RespondStep(c) => ~HoldsLock(c)
          /\ BroadcastStep(c) => ~HoldsLock(c)]_vars

\* C22, amended: parsing and validation happen before the lock is taken and
\* the response is written after it is released; the changes of SETMETADATA
\* are handed to c.broadcast while the write lock is still held, after the
\* commit; a connection that holds the lock is in its transaction or at the
\* broadcast.
C22_LockScope ==
    [][\A c \in Connections :
          /\ ParseStep(c) => ~HoldsLock(c) /\ ~HoldsLock(c)'
          /\ RespondStep(c) => ~HoldsLock(c)
          /\ BroadcastStep(c) => lock.w = c /\ db = committed
          /\ HoldsLock(c) => conns[c].pc \in {"tx", "broadcast", "unlock", "rtx", "runlock"}]_vars

\* A SETMETADATA has committed and broadcast its changes, and still holds the
\* write lock.
C22_Witness ==
    \E c \in Connections :
        /\ conns[c].pc = "unlock"
        /\ conns[c].resp = ok
        /\ conns[c].changes # <<>>
        /\ broadcast = conns[c].changes
        /\ lock.w = c

\* C23: a connection that holds the write lock releases it, whether its
\* transaction commits or is rolled back, and a connection that waits for the
\* lock gets it.
C23_LockReleased ==
    \A c \in Connections :
        /\ (lock.w = c) ~> (lock.w # c)
        /\ (conns[c].pc = "wlock") ~> (conns[c].pc = "tx")
        /\ (conns[c].pc = "rlock") ~> (conns[c].pc = "rtx")

\* A SETMETADATA was rejected for the quota and rolled back, still holds the
\* write lock, and the other connection waits for the lock.
C23_Witness ==
    \E c, d \in Connections :
        /\ lock.w = c
        /\ conns[c].pc = "unlock"
        /\ conns[c].resp.code \in QuotaCodes
        /\ db = conns[c].base
        /\ conns[d].pc \in {"wlock", "rlock"}

\* The items of the untagged METADATA response of the last command.
ReturnedItems ==
    IF resp.untagged = <<>>
    THEN {}
    ELSE {resp.untagged[1].items[i] : i \in 1..Len(resp.untagged[1].items)}

\* C24: SETMETADATA leaves the rows of every scope but its own as they were,
\* and every annotation GETMETADATA returns is a row of its own scope, with
\* the value of that row.
C24_ScopesIsolated ==
    /\ IsSet => \A other \in MailboxNames \ {req.mailboxName} :
                    OwnRows(db, other) = OwnRows(dbBefore, other)
    /\ IsGet => /\ resp.untagged # <<>> => resp.untagged[1].mailbox = req.mailboxName
                /\ \A item \in ReturnedItems :
                      \E a \in RowsOf(db, req.mailboxName, item.key) : item.value = a.Value.b

\* /private/a holds different values in the global scope and in the mailbox,
\* a SETMETADATA on the mailbox has changed the row of the mailbox only.
C24_Witness ==
    /\ IsSet
    /\ resp = ok
    /\ req.mailboxName = strInbox
    /\ RowsOf(dbBefore, <<>>, kA) # {}
    /\ RowsOf(db, <<>>, kA) = RowsOf(dbBefore, <<>>, kA)
    /\ RowsOf(db, strInbox, kA) # RowsOf(dbBefore, strInbox, kA)
    /\ \A a \in RowsOf(db, <<>>, kA), b \in RowsOf(db, strInbox, kA) : a.Value # b.Value
    /\ RowsOf(db, strInbox, kA) # {}

\* The entry names of an entry list.
NamesIn(entries) == {entries[i] : i \in 1..Len(entries)}

\* C25: the response of GETMETADATA is the response to every entry list with
\* the same names, in any order and with any repetition, and no key appears
\* twice in it.
C25_EntryNamesAreASet ==
    (IsGet /\ OptionsOnce)
        => /\ \A entries \in GetEntryLists :
                NamesIn(entries) = NamesIn(req.entries)
                    => resp = getmetadata(db, MaxSizeGiven, DepthGiven, req.mailboxName,
                                          entryNamesOf(entries))
           /\ resp.untagged # <<>>
                => \A i, j \in 1..Len(resp.untagged[1].items) :
                      resp.untagged[1].items[i].key = resp.untagged[1].items[j].key => i = j

\* DEPTH INFINITY with /private/a/b before its ancestor /private/a in the
\* entry list: the row of /private/a/b matches both and is returned.
C25_Witness ==
    /\ IsGet
    /\ req.opts = <<Option("DEPTH", 0, "INFINITY")>>
    /\ req.entries = <<kAB, kA>>
    /\ {kA, kAB, kABC} \subseteq ReturnedKeys
    /\ Len(resp.untagged[1].items) = 3

\* An option list with a keyword other than MAXSIZE and DEPTH, or with one of
\* the two given twice.
BadOptions(opts) ==
    \/ \E i \in 1..Len(opts) : opts[i].name \notin {"MAXSIZE", "DEPTH"}
    \/ \E i, j \in 1..Len(opts) : i # j /\ opts[i].name = opts[j].name

\* C26: a GETMETADATA with such an option list is answered with a syntax error
\* and is never in a transaction or in possession of the lock; one with another
\* option list is not answered with a syntax error.
C26_OptionErrorsBeforeLock ==
    \A c \in Connections :
        (conns[c].cmd = "GETMETADATA" /\ conns[c].pc # "idle")
            => IF BadOptions(conns[c].opts)
               THEN /\ conns[c].pc = "respond"
                    /\ conns[c].resp = xerrorf
                    /\ ~HoldsLock(c)
               ELSE conns[c].resp.status # "syntax error"

\* MAXSIZE 1 after MAXSIZE 0 is answered with a syntax error while the other
\* connection is in its write transaction.
C26_Witness ==
    \E c, d \in Connections :
        /\ conns[c].cmd = "GETMETADATA"
        /\ conns[c].opts = <<Option("MAXSIZE", 0, ""), Option("MAXSIZE", 1, "")>>
        /\ conns[c].pc = "respond"
        /\ conns[c].resp = xerrorf
        /\ conns[d].pc = "tx"
        /\ lock.w = d

\* Whether pair i of the last command is the last one for its key.
LastPairForKey(i) ==
    \A j \in (i + 1)..Len(req.l) : req.l[j].Key # req.l[i].Key

\* C27: no row of the table has a nil value; after a successful SETMETADATA a
\* key whose last pair has the nil marker has no row in the scope, and a key
\* whose last pair has a value, of any length, has a row with that value.
C27_NoNilValuePersisted ==
    /\ \A i \in 1..Len(db) : ~db[i].Value.isNil
    /\ (IsSet /\ resp = ok)
          => \A i \in 1..Len(req.l) :
                LastPairForKey(i)
                    => IF req.l[i].Value.isNil
                       THEN RowsOf(db, req.mailboxName, req.l[i].Key) = {}
                       ELSE /\ RowsOf(db, req.mailboxName, req.l[i].Key) # {}
                            /\ \A a \in RowsOf(db, req.mailboxName, req.l[i].Key) :
                                  a.Value = req.l[i].Value

\* One command removes the row of /private/a with the nil marker and stores a
\* value of length zero for /private/a/b.
C27_Witness ==
    /\ IsSet
    /\ resp = ok
    /\ Len(req.l) = 2
    /\ req.l[1].Value.isNil
    /\ RowsOf(dbBefore, req.mailboxName, req.l[1].Key) # {}
    /\ RowsOf(db, req.mailboxName, req.l[1].Key) = {}
    /\ req.l[2].Value = Bytes(<<>>)
    /\ \E a \in RowsOf(db, req.mailboxName, req.l[2].Key) : a.Value = Bytes(<<>>)

----------------------------------------------------------------------------
\* Specification of the import: one reader is made, of an mbox file or of a
\* maildir, and Next is called on it again and again. The files have lines
\* that end with "\n" and with "\r\n", empty lines, "From " lines, lines
\* quoted with ">", and a last line with and without a line ending.

lnFrom == from \o <<"a", LF>>
lnEmpty == <<LF>>
lnEmptyCRLF == CRLF
lnBody == <<"x", LF>>
lnBodyCRLF == <<"x", CR, LF>>
lnQuoted == <<">">> \o from \o <<LF>>
lnQuotedTwice == <<">", ">">> \o from \o <<LF>>
lnLast == <<"x", "y">>
lnLastFrom == from \o <<"b">>

MboxLines == {lnFrom, lnEmpty, lnEmptyCRLF, lnBody, lnBodyCRLF, lnQuoted, lnQuotedTwice}
MaildirLines == {lnBody, lnBodyCRLF, lnEmpty}
LastLines == {lnLast, lnLastFrom}

\* The files over lines of at most n lines: only the last line may lack "\n".
Files(lines, n) ==
    SeqsUpTo(lines, n)
        \cup {Append(f, l) : f \in {<<>>} \cup SeqsUpTo(lines, n - 1), l \in LastLines}

MboxFiles == Files(MboxLines, MaxLines)
MaildirFiles == Files(MaildirLines, MaxLines - 1)

MboxOpen == \E file \in MboxFiles : OpenMbox(file)
MboxReaderCall == \E tempErr \in BOOLEAN : MboxNext(tempErr)
MaildirOpen ==
    \E newf \in {<<>>} \cup {<<file>> : file \in MaildirFiles},
       curf \in {<<>>, <<<<lnBody>>>>, <<<<lnBody, lnLast>>, <<lnBodyCRLF>>>>} :
        OpenMaildir(newf, curf)
MaildirReaderCall == \E tempErr \in BOOLEAN : MaildirNext(tempErr)

NextImport == MboxOpen \/ MboxReaderCall \/ MaildirOpen \/ MaildirReaderCall

SpecImport == Init /\ [][NextImport]_vars

\* Line l of a file is empty: a bare line ending.
IsEmptyLine(l) == l \in {<<LF>>, CRLF}

\* C28: a message read by the MboxReader ends at a "From " line only when the
\* line before it in the file is empty; a "From " line after a non-empty line,
\* also one that directly follows the "From " line that ended the message
\* before, is content. Violated: the line before the ending line is not empty.
C28_FromAfterEmptyLineOnly ==
    (out.kind = "mbox" /\ out.err = "" /\ out.sep # 0)
        => IsEmptyLine(mr.file[out.sep - 1])

\* The line ending of l removed: "\r\n", else "\n", else nothing.
Content(l) ==
    IF HasSuffix(l, CRLF) THEN SubSeq(l, 1, Len(l) - 2)
    ELSE IF HasSuffix(l, <<LF>>) THEN SubSeq(l, 1, Len(l) - 1)
    ELSE l

\* The line as stored for input line l: its content, for mbox without one
\* leading ">" of a quoted "From " line, with "\r\n".
Stored(kind, l) ==
    LET c == Content(l)
    IN  (IF kind = "mbox" /\ HasPrefix(c, <<">">>) /\ HasPrefix(TrimLeft(c, ">"), from)
         THEN Tail(c)
         ELSE c) \o CRLF

RECURSIVE SumLen(_)
SumLen(lines) == IF lines = <<>> THEN 0 ELSE Len(Head(lines)) + SumLen(Tail(lines))

\* C29: both readers store every line of a message with "\r\n" and otherwise
\* unchanged, whether it ended with "\n", with "\r\n" or at the end of the
\* file without a line ending, apart from one leading ">" removed by the
\* MboxReader; Size is the number of bytes written. Violated: a stored line
\* differs from its input line.
C29_LinesStoredWithCRLF ==
    out.err = ""
        => /\ Len(out.data) = Len(out.read)
           /\ \A i \in 1..Len(out.read) : out.data[i] = Stored(out.kind, out.read[i])
           /\ out.Size = SumLen(out.data)

\* A step of connection c in a GETMETADATA command.
GetStep(c) ==
    /\ conns'[c] # conns[c]
    /\ conns[c].cmd = "GETMETADATA" \/ conns'[c].cmd = "GETMETADATA"

\* C30: GETMETADATA only reads: no step of it, from parsing to the response,
\* changes the table or the committed table, or hands a change to c.broadcast.
C30_GetIsReadOnly ==
    [][\A c \in Connections :
          GetStep(c) => db' = db /\ committed' = committed /\ broadcast' = broadcast]_vars

\* A GETMETADATA that returned annotations of a table with rows is about to
\* write its response, after another command has committed and broadcast.
C30_Witness ==
    \E c \in Connections :
        /\ conns[c].cmd = "GETMETADATA"
        /\ conns[c].pc = "respond"
        /\ conns[c].resp.untagged # <<>>
        /\ committed # <<>>
        /\ db = committed
        /\ broadcast # <<>>

----------------------------------------------------------------------------
\* Whether the last command names the key of its pair i in an earlier pair too.
NamedBefore(i) == \E j \in 1..(i - 1) : req.l[j].Key = req.l[i].Key

\* The rows of table d outside the scope of mailboxName or with a key that
\* list l does not name.
RowsNotNamed(d, mailboxName, l) ==
    {d[i] : i \in {j \in 1..Len(d) :
                      \/ d[j].MailboxID # xmailbox(mailboxName)
                      \/ \A k \in 1..Len(l) : l[k].Key # d[j].Key}}

\* C31: after a successful SETMETADATA that names a key several times, the
\* key has what its last pair says, whatever the earlier pairs of the key and
\* the table before were: no row when the last pair has the nil marker, and
\* else exactly one row, with the value of the last pair; the rows the
\* command does not name are as before.
C31_LastPairWins ==
    (IsSet /\ resp = ok)
        => /\ \A i \in 1..Len(req.l) :
                (NamedBefore(i) /\ LastPairForKey(i))
                    => LET rows == RowsOf(db, req.mailboxName, req.l[i].Key)
                       IN  IF req.l[i].Value.isNil
                           THEN rows = {}
                           ELSE /\ Cardinality(rows) = 1
                                /\ \A a \in rows : a.Value = req.l[i].Value
           /\ RowsNotNamed(db, req.mailboxName, req.l)
                = RowsNotNamed(dbBefore, req.mailboxName, req.l)

\* One command stores two different values for a key that had no row: the
\* second pair updates the row the first pair inserted.
C31_Witness ==
    /\ IsSet
    /\ resp = ok
    /\ Len(req.l) = 2
    /\ req.l[1].Key = req.l[2].Key
    /\ ~req.l[1].Value.isNil
    /\ ~req.l[2].Value.isNil
    /\ req.l[1].Value # req.l[2].Value
    /\ RowsOf(dbBefore, req.mailboxName, req.l[1].Key) = {}
    /\ \E a \in RowsOf(db, req.mailboxName, req.l[2].Key) : a.Value = req.l[2].Value
    /\ Len(broadcast) = 2

\* Connection c has committed its transaction and not yet handed its changes
\* to c.broadcast.
Unpublished(c) == conns[c].pc = "broadcast"

\* C32: the batches of changes are published in the order of the commits. A
\* connection that has committed and not yet published holds the write lock;
\* until it publishes, no transaction commits and no other connection
\* publishes, and the batch it publishes is the one of its own transaction.
\* So commits and broadcasts alternate, each broadcast being the one of the
\* commit before it.
C32_BroadcastInCommitOrder ==
    [][\A c \in Connections :
          Unpublished(c)
              => /\ lock.w = c
                 /\ \A d \in Connections \ {c} : ~Unpublished(d) /\ conns[d].pc # "tx"
                 /\ committed' = committed
                 /\ \A d \in Connections \ {c} : ~BroadcastStep(d)
                 /\ (broadcast' # broadcast \/ ~Unpublished(c)')
                        => /\ BroadcastStep(c)
                           /\ broadcast' = conns[c].changes
                           /\ lock'.w = c]_vars

\* After the batch of an earlier command was published, a connection has
\* committed another batch and not yet published it, and the other connection
\* waits for the write lock with a SETMETADATA of its own.
C32_Witness ==
    \E c, d \in Connections :
        /\ Unpublished(c)
        /\ conns[c].changes # <<>>
        /\ broadcast # <<>>
        /\ broadcast # conns[c].changes
        /\ committed = db
        /\ conns[d].pc = "wlock"
        /\ conns[d].l # <<>>

====
